---- MODULE Spec2Model ----
(***************************************************************************)
(* Waygate MCP: the plugin / MCP-bridge subsystem.                         *)
(*                                                                         *)
(*   MCPBridgePlugin        src/source/plugins/mcp_bridge_plugin.py        *)
(*   PluginLoader           src/source-backup-092925/plugins/plugin_loader.py *)
(*   MCPIntegrationManager  src/source/mcp_integration.py                  *)
(*                                                                         *)
(* An object is a record; a method is an operator from the object (and the *)
(* outcome of whatever the method awaits on the outside: a process, an    *)
(* HTTP endpoint, an imported module) to the object afterwards, the value  *)
(* returned or the exception raised, and the transport operations it       *)
(* performed.  Timestamps (last_sync, last_load_time) carry no behaviour   *)
(* and are left out; messages are kept as <<prefix, cause>>.               *)
(***************************************************************************)
EXTENDS Integers, Sequences, FiniteSets, TLC

\* one bridge adapter, driven directly by a caller, and its last call
VARIABLES adapter, last
\* the plugin loader, the plugin objects it made (an object's identity is its
\* place in heap), the persisted plugins and mcp_servers tables, and the
\* loader's last call
VARIABLES loader, heap, plugins_db, servers_db, lcall
\* the integration manager, the module global plugin_loader it obtains its
\* loader through, and the manager's last call
VARIABLES manager, plugin_loader, mcall

\* the files of the loader's plugins directory, and the last call that
\* read it
VARIABLES plugins_directory, dcall

bvars == <<adapter, last>>
lvars == <<loader, heap, plugins_db, servers_db, lcall>>
mvars == <<manager, plugin_loader, mcall>>
\* the tasks of the event loop that are inside a call, each with its place
\* in the coroutine and its locals, and the pipes of a stdio server process
VARIABLES tasks, pipe

xvars == <<plugins_directory, dcall, tasks, pipe>>
vars == <<bvars, lvars, mvars, xvars>>

(* ------------------------------ bounds -------------------------------- *)
\* error_count is unbounded in the code; the actions stop raising it here.
MaxErrors == 2
\* error_count of a plugin object of the loader: the loader's and the
\* manager's actions stop raising it here
MaxPluginErrors == 3
\* the plugin objects one loader makes
MaxInstances == 2
\* plugin_stats counters are unbounded in the code; the loader's actions stop
\* raising them here
MaxCount == 2

(* --------------------------- value universes -------------------------- *)
Methods == {"stdio", "http", "python", "subprocess"}
\* a communication_method the adapter does not support
Bogus == "bogus"
\* the tools the external server can offer
Tools == {"t1", "t2"}
\* a tool name no server, catalog or module knows
UnknownTool == "nope"
ToolNames == Tools \cup {UnknownTool}
\* the public attributes of the module the python transport imports
ModuleAttrs == Tools
\* Python's None, for mcp_status["last_error"] and for error messages
NULL == <<>>
NoExc == "none"

\* mcp_config, by the key that selects the transport.  "absent" is the
\* missing key (.get("communication_method", "stdio")).  The keys a transport
\* needs to open (base_url, module_name, credentials) are not kept: a missing
\* one makes the open raise, which is the outcome "fail_open" below.
Configs == [communication_method : {"absent"} \cup Methods \cup {Bogus}]

\* dict.update: a key of the new config replaces the old one, a missing key
\* keeps it.
dict_update(old, new) ==
  [communication_method |->
      IF new.communication_method = "absent" THEN old.communication_method
      ELSE new.communication_method]

(* -------------------------- MCPBridgePlugin --------------------------- *)
\* __init__
MCPBridgePlugin(cfg) ==
  [mcp_config |-> cfg,
   mcp_client |-> "none",
   mcp_tools |-> {},
   communication_method |-> "stdio",
   process |-> "none",
   is_initialized |-> FALSE,
   mcp_status |-> [connected |-> FALSE, tool_count |-> 0,
                   error_count |-> 0, last_error |-> NULL]]

\* What a method hands back: the adapter afterwards, the exception that left
\* it (NoExc when it returned), the transport operations it performed, and
\* the methods it ran, in order.
Ret(a, exc, ops, calls) == [a |-> a, exc |-> exc, ops |-> ops, calls |-> calls]

\* Outcomes of opening a transport: it opens; opening itself raises (exec of
\* the command, a missing base_url or module_name, the import); or it opens
\* and the check that follows fails (the process exited within the second,
\* GET /health failed).
OpenOutcomes == {"ok", "fail_open", "fail_probe"}

_initialize_stdio_client(a, out) ==
  CASE out = "fail_open" -> Ret(a, "OSError", {"spawn"}, <<>>)
    [] out = "fail_probe" ->
         Ret([a EXCEPT !.process = "exited"], "MCPCommunicationError", {"spawn"}, <<>>)
    [] OTHER -> Ret([a EXCEPT !.process = "running"], NoExc, {"spawn"}, <<>>)

_initialize_http_client(a, out) ==
  CASE out = "fail_open" -> Ret(a, "MCPCommunicationError", {}, <<>>)
    [] out = "fail_probe" ->
         Ret([a EXCEPT !.mcp_client = "http"], "MCPCommunicationError",
             {"http_client", "http_get"}, <<>>)
    [] OTHER ->
         Ret([a EXCEPT !.mcp_client = "http"], NoExc,
             {"http_client", "http_get"}, <<>>)

_initialize_python_client(a, out) ==
  IF out = "ok"
  THEN Ret([a EXCEPT !.mcp_client = "module"], NoExc, {"import"}, <<>>)
  ELSE Ret(a, "MCPCommunicationError", {"import"}, <<>>)

_initialize_subprocess_client(a, out) ==
  Ret([a EXCEPT !.mcp_client = "subprocess"], NoExc, {}, <<>>)

initialize_mcp_client(a, out) ==
  LET method == IF a.mcp_config.communication_method = "absent" THEN "stdio"
                ELSE a.mcp_config.communication_method
      a1 == [a EXCEPT !.communication_method = method]
  IN CASE method = "stdio" -> _initialize_stdio_client(a1, out)
       [] method = "http" -> _initialize_http_client(a1, out)
       [] method = "python" -> _initialize_python_client(a1, out)
       [] method = "subprocess" -> _initialize_subprocess_client(a1, out)
       [] OTHER -> Ret(a1, "MCPCommunicationError", {}, <<>>)

\* Outcomes of asking the transport for its catalog: the tools it lists, or
\* an exception (a line that is no JSON, a non-2xx status, get_tools raising).
Catalogs == {{}, {"t1"}, {"t1", "t2"}}
SyncOutcomes == [out : {"raise"}, tools : {{}}] \cup [out : {"ok"}, tools : Catalogs]

\* _get_stdio_tools ... _get_subprocess_tools: <<exception, tools, operations>>
_get_tools_of(a, sync) ==
  CASE a.communication_method = "stdio" ->
         IF a.process # "running" THEN <<NoExc, {}, {}>>
         ELSE IF sync.out = "ok" THEN <<NoExc, sync.tools, {"stdin_write"}>>
         ELSE <<"JSONDecodeError", {}, {"stdin_write"}>>
    [] a.communication_method = "http" ->
         IF a.mcp_client = "none" THEN <<NoExc, {}, {}>>
         ELSE IF sync.out = "ok" /\ a.mcp_client = "http"
              THEN <<NoExc, sync.tools, {"http_get"}>>
         ELSE <<"HTTPError", {}, {"http_get"}>>
    [] a.communication_method = "python" ->
         IF a.mcp_client = "none" THEN <<NoExc, {}, {}>>
         ELSE IF sync.out = "ok" /\ a.mcp_client = "module"
              THEN <<NoExc, sync.tools, {"module_call"}>>
         ELSE <<"Exception", {}, {"module_call"}>>
    [] a.communication_method = "subprocess" ->
         IF sync.out = "ok" THEN <<NoExc, sync.tools, {"spawn"}>>
         ELSE <<"OSError", {}, {"spawn"}>>
    [] OTHER -> <<NoExc, {}, {}>>

\* an adapter that adds the tools it is told of to those it has
_sync_mcp_tools_merge(a, sync) ==
  LET got == _get_tools_of(a, sync)
  IN IF got[1] = NoExc
     THEN Ret([a EXCEPT !.mcp_tools = @ \cup got[2],
                        !.mcp_status.tool_count = Cardinality(a.mcp_tools \cup got[2])],
              NoExc, got[3], <<>>)
     ELSE Ret(a, NoExc, got[3], <<>>)

_sync_mcp_tools(a, sync) ==
  LET got == _get_tools_of(a, sync)
  IN IF got[1] = NoExc
     THEN Ret([a EXCEPT !.mcp_tools = got[2],
                        !.mcp_status.tool_count = Cardinality(got[2])],
              NoExc, got[3], <<>>)
     ELSE Ret([a EXCEPT !.mcp_tools = {}], NoExc, got[3], <<>>)

\* Outcomes of one initialize(): the open fails, or it succeeds and the
\* catalog is asked for.
NoSync == [out |-> "raise", tools |-> {}]
InitOutcomes ==
  [client : OpenOutcomes \ {"ok"}, sync : {NoSync}] \cup [client : {"ok"}, sync : SyncOutcomes]
NoInit == [client |-> "fail_open", sync |-> NoSync]

initialize(a, env) ==
  LET c == initialize_mcp_client(a, env.client)
      s == _sync_mcp_tools(c.a, env.sync)
  IN IF c.exc # NoExc
     THEN Ret([c.a EXCEPT
                 !.mcp_status.last_error = <<"MCP bridge initialization failed">>,
                 !.mcp_status.error_count = @ + 1],
              "MCPCommunicationError", c.ops, <<"initialize">>)
     ELSE Ret([s.a EXCEPT !.is_initialized = TRUE,
                          !.mcp_status.connected = TRUE],
              NoExc, c.ops \cup s.ops, <<"initialize">>)

\* Outcomes of closing a transport: aclose() / terminate() return or raise.
\* terminate() on a live process returns; on a process that is gone the
\* event loop's transport may already be closed, and it raises
\* ProcessLookupError.
CloseOutcomes == {"ok", "raise"}

cleanup(a, close) ==
  LET http == a.communication_method = "http" /\ a.mcp_client # "none"
      http_raises == http /\ close = "raise"
      a1 == IF http /\ ~http_raises THEN [a EXCEPT !.mcp_client = "http_closed"]
            ELSE a
      proc == a.process # "none"
      proc_raises == proc /\ a.process # "running" /\ close = "raise"
      a2 == IF proc /\ a.process = "running"
            THEN [a1 EXCEPT !.process = "terminated"] ELSE a1
  IN IF http_raises THEN Ret(a, NoExc, {}, <<"cleanup">>)
     ELSE IF proc_raises THEN Ret(a1, NoExc, {}, <<"cleanup">>)
     ELSE Ret([a2 EXCEPT !.is_initialized = FALSE,
                         !.mcp_status.connected = FALSE],
              NoExc, {}, <<"cleanup">>)

\* the adapter's place in its state machine, as its two flags give it
State(a) == [is_initialized |-> a.is_initialized, connected |-> a.mcp_status.connected]

ConfigureOutcomes == [close : CloseOutcomes, init : InitOutcomes]
NoConfigure == [close |-> "ok", init |-> NoInit]

configure_mcp_server(a, config, env) ==
  LET a1 == [a EXCEPT !.mcp_config = dict_update(a.mcp_config, config)]
      c == cleanup(a1, env.close)
      i == initialize(c.a, env.init)
  IN IF a1.is_initialized
     THEN [a |-> i.a, exc |-> i.exc, ops |-> c.ops \cup i.ops,
           calls |-> <<"update">> \o c.calls \o i.calls, mid |-> State(c.a)]
     ELSE [a |-> a1, exc |-> NoExc, ops |-> {}, calls |-> <<"update">>,
           mid |-> State(a1)]

\* an adapter that asks the server again on every call
get_tools_resync(a, env) ==
  LET i == initialize(a, env)
  IN [a |-> i.a, exc |-> i.exc, ops |-> i.ops, calls |-> i.calls,
      value |-> IF i.exc = NoExc THEN i.a.mcp_tools ELSE {}]

get_tools(a, env) ==
  LET i == initialize(a, env)
  IN IF ~a.is_initialized
     THEN [a |-> i.a, exc |-> i.exc, ops |-> i.ops, calls |-> i.calls,
           value |-> IF i.exc = NoExc THEN i.a.mcp_tools ELSE {}]
     ELSE [a |-> a, exc |-> NoExc, ops |-> {}, calls |-> <<>>,
           value |-> a.mcp_tools]

\* Outcomes of one tool call on the transport: a result; a failure the
\* transport reports (an "error" field, a non-2xx status, a non-zero exit
\* code, the called function raising); or a response that is no JSON.
ExecOutcomes == {"ok", "error", "malformed"}

\* What _execute_*_tool hands back: the exception it raised (NoExc: it
\* returned the result), the message, and the transport operations.
Exec(exc, cause, ops, tool) ==
  [exc |-> exc, cause |-> cause, ops |-> ops,
   result |-> [success |-> exc = NoExc, error |-> NULL, tool |-> tool]]

_execute_stdio_tool(a, tool_name, resp) ==
  IF a.process # "running"
  THEN Exec("MCPCommunicationError", "MCP server process not running", {}, tool_name)
  ELSE CASE resp = "malformed" ->
              Exec("JSONDecodeError", "no JSON", {"stdin_write"}, tool_name)
         [] resp = "error" ->
              Exec("MCPCommunicationError", "MCP server error", {"stdin_write"}, tool_name)
         [] OTHER -> Exec(NoExc, NULL, {"stdin_write"}, tool_name)

_execute_http_tool(a, tool_name, resp) ==
  IF a.mcp_client = "none"
  THEN Exec("MCPCommunicationError", "HTTP MCP client not initialized", {}, tool_name)
  ELSE IF a.mcp_client # "http"
  THEN Exec("RuntimeError", "client closed or no HTTP client", {}, tool_name)
  ELSE CASE resp = "error" ->
              Exec("HTTPStatusError", "non-2xx", {"http_post"}, tool_name)
         [] resp = "malformed" ->
              Exec("JSONDecodeError", "no JSON", {"http_post"}, tool_name)
         [] OTHER -> Exec(NoExc, NULL, {"http_post"}, tool_name)

_execute_python_tool(a, tool_name, resp) ==
  IF a.mcp_client = "none"
  THEN Exec("MCPCommunicationError", "Python MCP client not initialized", {}, tool_name)
  ELSE IF a.mcp_client = "module" /\ tool_name \in ModuleAttrs
  THEN IF resp = "error"
       THEN Exec("Exception", "the function raised", {"module_call"}, tool_name)
       ELSE Exec(NoExc, NULL, {"module_call"}, tool_name)
  ELSE Exec("MCPCommunicationError", "Tool not found in Python module", {}, tool_name)

_execute_subprocess_tool(a, tool_name, resp) ==
  IF resp = "error"
  THEN Exec("MCPCommunicationError", "Subprocess execution failed", {"spawn"}, tool_name)
  ELSE Exec(NoExc, NULL, {"spawn"}, tool_name)

\* a handler that catches the adapter's own exception type only
CaughtCommunicationErrorOnly(exc) == exc = "MCPCommunicationError"

\* the exceptions "except Exception" catches: all of them
Caught(exc) == exc # NoExc

execute(a, tool_name, resp) ==
  LET r == CASE a.communication_method = "stdio" -> _execute_stdio_tool(a, tool_name, resp)
             [] a.communication_method = "http" -> _execute_http_tool(a, tool_name, resp)
             [] a.communication_method = "python" -> _execute_python_tool(a, tool_name, resp)
             [] a.communication_method = "subprocess" ->
                  _execute_subprocess_tool(a, tool_name, resp)
             [] OTHER -> Exec("MCPCommunicationError", "Unsupported communication method",
                              {}, tool_name)
      error_msg == <<"MCP tool execution failed", r.cause>>
      last_error == <<"MCP tool execution failed">>
  IN IF ~a.is_initialized
     THEN [a |-> a, exc |-> NoExc, ops |-> {}, calls |-> <<>>,
           value |-> [success |-> FALSE, error |-> <<"MCP bridge not initialized">>,
                      tool |-> tool_name]]
     ELSE IF r.exc = NoExc
     THEN [a |-> a, exc |-> NoExc, ops |-> r.ops, calls |-> <<>>, value |-> r.result]
     ELSE IF Caught(r.exc)
     THEN [a |-> [a EXCEPT !.mcp_status.error_count = @ + 1,
                           !.mcp_status.last_error = last_error],
           exc |-> NoExc, ops |-> r.ops, calls |-> <<>>,
           value |-> [success |-> FALSE, error |-> error_msg, tool |-> tool_name]]
     ELSE [a |-> a, exc |-> r.exc, ops |-> r.ops, calls |-> <<>>,
           value |-> [success |-> FALSE, error |-> NULL, tool |-> tool_name]]

(* ------------------------------ plugins ------------------------------- *)
\* the modules discover_plugins() finds in the loader's directory, in the
\* order it lists them
PluginNames == {"firebase_mcp_plugin", "github_plugin"}
PluginOrder == <<"firebase_mcp_plugin", "github_plugin">>

\* loaded_plugins and mcp_servers hold references to plugin objects; a
\* reference is the object's place in heap, and this is the missing key
NotLoaded == 0

\* GitHubPlugin has none of the adapter's attributes; the field is never read
\* on a GitHubPlugin
NoBridge == MCPBridgePlugin([communication_method |-> "absent"])

\* FirebaseMCPPlugin.__init__
FirebaseMCPPlugin ==
  [class |-> "FirebaseMCPPlugin",
   a |-> MCPBridgePlugin([communication_method |-> "stdio"])]

\* GitHubPlugin.__init__
GitHubPlugin == [class |-> "GitHubPlugin", a |-> NoBridge]

\* the first class in dir(module) that derives from BasePlugin, instantiated
plugin_class(plugin_name) ==
  IF plugin_name = "firebase_mcp_plugin" THEN FirebaseMCPPlugin ELSE GitHubPlugin

\* the optional hooks: the adapter defines them, GitHubPlugin defines none
hasattr(plugin, attr) ==
  /\ plugin.class = "FirebaseMCPPlugin"
  /\ attr \in {"initialize", "cleanup", "configure_mcp_server"}

GitHubTools == {"create_github_repo", "create_issue", "list_my_repos", "create_readme"}
DiagnosticProTools ==
  {"diagnosticpro_get_submission", "diagnosticpro_create_order",
   "diagnosticpro_get_analytics", "diagnosticpro_deploy_functions"}

\* A result mapping, by its keys and the value under "success";
\* available_servers is the value under that key where it is one of the keys.
Mapping(keys, success) ==
  [kind |-> "mapping", keys |-> keys, success |-> success, available_servers |-> {}]
\* what a call hands back when it raises
NoMapping == [kind |-> "none", keys |-> {}, success |-> FALSE, available_servers |-> {}]

\* tools.extend(...) on what the adapter's get_tools() gave
tools_extend(r, more) ==
  [a |-> r.a, exc |-> r.exc, ops |-> r.ops,
   value |-> IF r.exc = NoExc THEN r.value \cup more ELSE {}]

FirebaseMCPPlugin_get_tools(a, env) ==
  tools_extend(get_tools(a, env), DiagnosticProTools)

GitHubPlugin_get_tools(a) ==
  [a |-> a, exc |-> NoExc, ops |-> {}, value |-> GitHubTools]

\* what FirebaseMCPPlugin.execute makes of r, the adapter's execute(): the
\* result with a context added when it is a success, the result as it is
\* when it is a failure, a failure of its own when the call raised
firebase_result(a, r) ==
  [a |-> r.a, exc |-> NoExc, ops |-> r.ops,
   value |->
     IF r.exc # NoExc THEN Mapping({"success", "error", "tool", "context"}, FALSE)
     ELSE IF r.value.success
     THEN Mapping({"success", "result", "tool", "context"}, TRUE)
     ELSE IF ~a.is_initialized THEN Mapping({"success", "error"}, FALSE)
     ELSE Mapping({"success", "error", "tool", "parameters"}, FALSE)]

FirebaseMCPPlugin_execute(a, tool_name, resp) ==
  firebase_result(a, execute(a, tool_name, resp))

\* create_readme writes a file, and the write can raise
GitHubPlugin_execute(a, tool_name, resp) ==
  LET done(keys) == [a |-> a, exc |-> NoExc, ops |-> {}, value |-> Mapping(keys, TRUE)]
  IN CASE tool_name \in {"create_github_repo", "create_issue"} ->
            done({"success", "message", "data"})
       [] tool_name = "list_my_repos" ->
            done({"success", "message", "repositories", "total"})
       [] tool_name = "create_readme" ->
            IF resp = "error"
            THEN [a |-> a, exc |-> "OSError", ops |-> {}, value |-> NoMapping]
            ELSE done({"success", "message", "content", "saved_to"})
       [] OTHER ->
            [a |-> a, exc |-> NoExc, ops |-> {},
             value |-> Mapping({"success", "error"}, FALSE)]

\* plugin.get_tools() and plugin.execute(), by the class of the object
plugin_get_tools(plugin, env) ==
  IF plugin.class = "GitHubPlugin" THEN GitHubPlugin_get_tools(plugin.a)
  ELSE FirebaseMCPPlugin_get_tools(plugin.a, env)

plugin_execute(plugin, tool_name, resp) ==
  IF plugin.class = "GitHubPlugin" THEN GitHubPlugin_execute(plugin.a, tool_name, resp)
  ELSE FirebaseMCPPlugin_execute(plugin.a, tool_name, resp)

(* -------------------------- the two tables ---------------------------- *)
\* The mcp_servers table, by name.  Two of the six default descriptors and
\* two of the six server types are kept; of a row, the columns the loader and
\* the manager read or write, timestamps and error_count left out.
ServerNames == {"firebase_mcp", "github_mcp"}
\* ORDER BY name, which is also the order the defaults are inserted in
ServerOrder == <<"firebase_mcp", "github_mcp">>
NoServer ==
  [server_type |-> "none", communication_method |-> "none", status |-> "absent",
   error_message |-> NULL, tool_count |-> 0]

\* tool_count = None
NoCount == -1

\* INSERT OR REPLACE: the row is new, whatever was there
register_mcp_server(db, name, server_type, communication_method) ==
  [db EXCEPT ![name] =
     [server_type |-> server_type, communication_method |-> communication_method,
      status |-> "inactive", error_message |-> NULL, tool_count |-> 0]]

initialize_default_mcp_servers(db) ==
  register_mcp_server(
    register_mcp_server(db, "firebase_mcp", "firebase", "stdio"),
    "github_mcp", "github", "stdio")

\* the names of the rows, in the order of the SELECT
list_mcp_servers(db) == SelectSeq(ServerOrder, LAMBDA n : db[n].status # "absent")

update_mcp_server_status(db, name, status, error_message, tool_count) ==
  IF db[name].status = "absent" THEN db
  ELSE [db EXCEPT ![name] =
          [@ EXCEPT !.status = status,
                    !.error_message = IF error_message # NULL THEN error_message ELSE @,
                    !.tool_count = IF tool_count # NoCount THEN tool_count ELSE @]]

\* The config column of a default descriptor has no communication_method key;
\* the descriptor as a whole has the column of that name.
nested_config(server) == [communication_method |-> "absent"]
descriptor(server) == [communication_method |-> server.communication_method]

\* f"{server_type}_mcp_plugin"
mcp_plugin_name(server_type) ==
  IF server_type = "firebase" THEN "firebase_mcp_plugin" ELSE "github_mcp_plugin"

\* The plugins table, by name: NoPlugin is the missing row.
NoPlugin == [status |-> "absent", error_message |-> NULL]
\* the columns of the plugins table that are NOT NULL and have no default
PluginsNotNull == {"name", "display_name", "version", "module_path"}
\* the columns _update_plugin_status gives a value to
StatusColumns ==
  {"name", "display_name", "version", "description", "status", "error_message",
   "last_loaded", "load_count", "updated_at"}

(* ---------------------------- PluginLoader ---------------------------- *)
\* What the loader's methods work on: the loader, the objects, the tables.
Sys(l, h, p, s) == [loader |-> l, heap |-> h, plugins_db |-> p, servers_db |-> s]

\* __init__, with a db_manager
PluginLoader ==
  [loaded_plugins |-> [n \in PluginNames |-> NotLoaded],
   mcp_servers |-> [n \in ServerNames |-> NotLoaded],
   plugin_stats |-> [total_loaded |-> 0, total_failed |-> 0, mcp_servers_active |-> 0]]

\* INSERT OR REPLACE INTO plugins: the statement names no module_path, the
\* table wants one, the database refuses the row, and the method logs the
\* exception and returns.
_update_plugin_status(S, plugin_name, status, error_message) ==
  IF PluginsNotNull \subseteq StatusColumns
  THEN [S EXCEPT !.plugins_db[plugin_name] =
                     [status |-> status, error_message |-> error_message]]
  ELSE S

\* Outcomes of one load: the import, the class lookup or the constructor
\* raises; or they succeed, the configuration is read (no row, or the query
\* raises) and initialize() runs.
PluginInitOutcomes ==
  {[client |-> "ok", sync |-> [out |-> "ok", tools |-> {"t1"}]], NoInit}
LoadOutcomes ==
  [fail : {"import", "no_class", "instantiate"}, config : {"no_row"}, init : {NoInit}]
    \cup [fail : {"none"}, config : {"no_row", "raise"}, init : PluginInitOutcomes]

\* Outcomes of the loads of a bulk load, one per discovered plugin: the import
\* raises, or initialize() runs
BulkLoadOutcomes ==
  [fail : {"import"}, config : {"no_row"}, init : {NoInit}]
    \cup [fail : {"none"}, config : {"no_row"}, init : PluginInitOutcomes]

\* _load_plugin_config: no row, nothing to apply; an exception, a warning
_load_plugin_config(S, plugin_name, out) == S

\* plugin_instance.initialize(), if the object has the hook
plugin_initialize(plugin, env) ==
  IF hasattr(plugin, "initialize") THEN initialize(plugin.a, env)
  ELSE Ret(plugin.a, NoExc, {}, <<>>)

\* load_plugin from the configuration on; i is what initialize() did
load_plugin_instance(S, plugin_name, env, plugin_instance, i) ==
  LET S1 == _load_plugin_config(S, plugin_name, env.config)
      failure == IF env.fail # "none" THEN env.fail
                 ELSE IF i.exc # NoExc THEN "initialize"
                 ELSE "none"
      id == Len(S1.heap) + 1
      stored == [S1 EXCEPT !.heap = Append(@, [plugin_instance EXCEPT !.a = i.a]),
                           !.loader.loaded_plugins[plugin_name] = id]
      failed == _update_plugin_status(S, plugin_name, "error",
                                      <<"Failed to load plugin", failure>>)
  IN IF failure = "none"
     THEN [s |-> _update_plugin_status(stored, plugin_name, "active", NULL),
           value |-> id, exc |-> NoExc, failure |-> failure, config |-> env.config]
     ELSE [s |-> [failed EXCEPT !.loader.plugin_stats.total_failed = @ + 1],
           value |-> NotLoaded, exc |-> NoExc, failure |-> failure,
           config |-> env.config]

load_plugin(S, plugin_name, env) ==
  load_plugin_instance(S, plugin_name, env, plugin_class(plugin_name),
                       plugin_initialize(plugin_class(plugin_name), env.init))

\* Outcomes of the re-configuration of a plugin by the loader or the manager
PluginConfigureOutcomes == [close : CloseOutcomes, init : PluginInitOutcomes]

\* plugin.configure_mcp_server(config), if the object has the hook
plugin_configure(plugin, config, env) ==
  IF hasattr(plugin, "configure_mcp_server")
  THEN configure_mcp_server(plugin.a, config, env)
  ELSE Ret(plugin.a, NoExc, {}, <<>>)

\* the plugin a server type resolves to: its reference, or NotLoaded
mcp_plugin_of(S, server_type) ==
  IF mcp_plugin_name(server_type) \in PluginNames
  THEN S.loader.loaded_plugins[mcp_plugin_name(server_type)] ELSE NotLoaded

\* one row of the loop, its plugin configured with outcome c; an exception
\* ends the loop
mcp_server_row_configured(S, server_name, id, c) ==
  IF c.exc # NoExc THEN [s |-> [S EXCEPT !.heap[id].a = c.a], raised |-> TRUE]
  ELSE [s |-> [S EXCEPT !.heap[id].a = c.a,
                        !.loader.mcp_servers[server_name] = id,
                        !.loader.plugin_stats.mcp_servers_active = @ + 1],
        raised |-> FALSE]

\* one row of the loop: a row that is not active was not selected, a row
\* whose plugin is not loaded is passed over
load_mcp_server_row(S, server_name, conf) ==
  LET server == S.servers_db[server_name]
      id == mcp_plugin_of(S, server.server_type)
  IN IF server.status # "active" \/ id = NotLoaded THEN [s |-> S, raised |-> FALSE]
     ELSE mcp_server_row_configured(
            S, server_name, id,
            plugin_configure(S.heap[id], nested_config(server), conf))

\* the rows from position i on, R being what the rows before made
RECURSIVE load_mcp_server_rows(_, _, _)
load_mcp_server_rows(R, i, conf) ==
  IF R.raised \/ i > Len(ServerOrder) THEN R.s
  ELSE load_mcp_server_rows(load_mcp_server_row(R.s, ServerOrder[i], conf), i + 1, conf)

load_mcp_server_plugins(S, conf) ==
  load_mcp_server_rows([s |-> S, raised |-> FALSE], 1, conf)

\* what one finished task adds to the results of load_all_plugins
load_counted(R, plugin_name, l) ==
  [s |-> l.s,
   successful |-> R.successful \cup (IF l.value # NotLoaded THEN {plugin_name} ELSE {}),
   failures |-> Append(R.failures, l.failure)]

\* The tasks of load_all_plugins, one per discovered name, from position i
\* on.  They share only total_failed, which each raises in one step, so
\* their interleaving is their sequence.
RECURSIVE load_each(_, _, _)
load_each(R, i, envs) ==
  IF i > Len(PluginOrder) THEN R
  ELSE load_each(
         load_counted(R, PluginOrder[i],
                      load_plugin(R.s, PluginOrder[i], envs[PluginOrder[i]])),
         i + 1, envs)

\* load_all_plugins once the tasks are done: the count, the MCP servers
load_all_loaded(r, conf) ==
  [s |-> load_mcp_server_plugins(
           [r.s EXCEPT !.loader.plugin_stats.total_loaded = @ + Cardinality(r.successful)],
           conf),
   value |-> r.successful, exc |-> NoExc, failures |-> r.failures]

load_all_plugins(S, envs, conf) ==
  load_all_loaded(load_each([s |-> S, successful |-> {}, failures |-> <<>>], 1, envs),
                  conf)

\* a loader that forgets to drop the instance
keep_loaded(S, plugin_name) == S

\* del self.loaded_plugins[plugin_name]
del_loaded(S, plugin_name) ==
  [S EXCEPT !.loader.loaded_plugins[plugin_name] = NotLoaded]

\* old_plugin.cleanup(), if the object has the hook
plugin_cleanup(plugin, close) ==
  IF hasattr(plugin, "cleanup") THEN cleanup(plugin.a, close)
  ELSE Ret(plugin.a, NoExc, {}, <<>>)

\* what reload_plugin returns, l being what the fresh load gave
reloaded(l, calls) ==
  [s |-> l.s, value |-> l.value # NotLoaded, exc |-> NoExc, new |-> l.value,
   calls |-> calls]

reload_plugin(S, plugin_name, close, env) ==
  LET old == S.loader.loaded_plugins[plugin_name]
      c == plugin_cleanup(S.heap[old], close)
      S1 == IF old = NotLoaded THEN S
            ELSE del_loaded([S EXCEPT !.heap[old].a = c.a], plugin_name)
  IN reloaded(load_plugin(S1, plugin_name, env),
              (IF old = NotLoaded THEN <<>> ELSE c.calls \o <<"del">>)
                \o <<"load_plugin">>)

unload_plugin(S, plugin_name, close) ==
  LET id == S.loader.loaded_plugins[plugin_name]
      c == plugin_cleanup(S.heap[id], close)
      S1 == del_loaded([S EXCEPT !.heap[id].a = c.a], plugin_name)
  IN IF id = NotLoaded
     THEN [s |-> S, value |-> FALSE, exc |-> NoExc, calls |-> <<>>]
     ELSE [s |-> _update_plugin_status(S1, plugin_name, "inactive", NULL),
           value |-> TRUE, exc |-> NoExc,
           calls |-> c.calls \o <<"del", "_update_plugin_status">>]

\* the names that are keys of loaded_plugins
loaded_names(S) == {n \in PluginNames : S.loader.loaded_plugins[n] # NotLoaded}

\* get_tools() on every loaded plugin: each call touches its own object only
each_get_tools(S, env) ==
  [n \in loaded_names(S) |-> plugin_get_tools(S.heap[S.loader.loaded_plugins[n]], env)]

RECURSIVE after_each(_, _, _, _)
after_each(S, refs, r, names) ==
  IF names = {} THEN S
  ELSE LET n == CHOOSE x \in names : TRUE
       IN after_each([S EXCEPT !.heap[refs[n]].a = r[n].a], refs, r, names \ {n})

after_get_tools(S, r) == after_each(S, S.loader.loaded_plugins, r, loaded_names(S))

\* the map of tools, r being what each get_tools() gave: an exception
\* gives that plugin no tools
plugin_tools(S, r) ==
  [s |-> after_get_tools(S, r), exc |-> NoExc,
   value |-> [n \in loaded_names(S) |-> IF r[n].exc = NoExc THEN r[n].value ELSE {}]]

get_plugin_tools(S, env) == plugin_tools(S, each_get_tools(S, env))

\* a loader that records a failed tool call against the plugin's record
plugin_tool_result_recorded(S, id, r) ==
  [s |-> [S EXCEPT !.heap[id].a = r.a,
                   !.plugins_db =
                     [n \in PluginNames |->
                        IF S.loader.loaded_plugins[n] = id /\ r.exc # NoExc
                        THEN [status |-> "error", error_message |-> NULL]
                        ELSE S.plugins_db[n]]],
   exc |-> NoExc,
   value |-> IF r.exc # NoExc THEN Mapping({"success", "error"}, FALSE) ELSE r.value]

\* what execute_plugin_tool makes of r, the plugin's execute()
plugin_tool_result(S, id, r) ==
  [s |-> [S EXCEPT !.heap[id].a = r.a], exc |-> NoExc,
   value |-> IF r.exc # NoExc THEN Mapping({"success", "error"}, FALSE) ELSE r.value]

execute_plugin_tool(S, plugin_name, tool_name, resp) ==
  LET id == S.loader.loaded_plugins[plugin_name]
  IN IF id = NotLoaded
     THEN [s |-> S, exc |-> NoExc, value |-> Mapping({"success", "error"}, FALSE)]
     ELSE plugin_tool_result(S, id, plugin_execute(S.heap[id], tool_name, resp))

\* the status, r being what each get_tools() gave; no handler around
\* get_tools(): the exception of a plugin is the method's
plugin_status(S, r) ==
  LET raised == {n \in loaded_names(S) : r[n].exc # NoExc}
  IN [s |-> after_get_tools(S, r),
      exc |-> IF raised = {} THEN NoExc ELSE r[CHOOSE n \in raised : TRUE].exc,
      value |-> [plugins_loaded |-> Cardinality(loaded_names(S)),
                 plugins_failed |-> S.loader.plugin_stats.total_failed,
                 mcp_servers_active |-> S.loader.plugin_stats.mcp_servers_active]]

get_plugin_status(S, env) == plugin_status(S, each_get_tools(S, env))

(* ----------------------- MCPIntegrationManager ------------------------ *)
\* __init__
MCPIntegrationManager ==
  [plugin_loader |-> "None",
   mcp_servers |-> [n \in ServerNames |-> NotLoaded],
   is_initialized |-> FALSE]

\* the module global plugin_loader: made, and bulk-loaded, on first access
get_plugin_loader(S, global, envs, conf) ==
  IF global = "None"
  THEN [s |-> load_all_plugins([S EXCEPT !.loader = PluginLoader], envs, conf).s,
        global |-> "PluginLoader"]
  ELSE [s |-> S, global |-> global]

\* a startup that registers the defaults whatever is persisted
seed_defaults_always(S) ==
  [S EXCEPT !.servers_db = initialize_default_mcp_servers(@)]

_initialize_default_configurations(S) ==
  IF list_mcp_servers(S.servers_db) = <<>>
  THEN [S EXCEPT !.servers_db = initialize_default_mcp_servers(@)]
  ELSE S

\* Outcomes of loading one server: those of the re-configuration, and those
\* of the initialize() that get_tools() runs on a plugin that is not
\* initialized
ServerLoadOutcomes == [conf : PluginConfigureOutcomes, tools : PluginInitOutcomes]

\* update_mcp_server_status(name, "error", message)
server_error(S, name, message) ==
  [S EXCEPT !.servers_db = update_mcp_server_status(@, name, "error", message, NoCount)]

\* _load_mcp_server from the binding on; g is what get_tools() gave
mcp_server_bound(m, S, name, id, g) ==
  [m |-> [m EXCEPT !.mcp_servers[name] = id],
   s |-> IF g.exc # NoExc
         THEN server_error([S EXCEPT !.heap[id].a = g.a], name,
                           <<"MCP bridge initialization failed">>)
         ELSE [S EXCEPT !.heap[id].a = g.a,
                        !.servers_db =
                          update_mcp_server_status(@, name, "active", NULL,
                                                   Cardinality(g.value))]]

\* _load_mcp_server from the configuration of the plugin on; c is what
\* configure_mcp_server() did
mcp_server_configured(m, S, name, id, env, c) ==
  IF c.exc # NoExc
  THEN [m |-> m,
        s |-> server_error([S EXCEPT !.heap[id].a = c.a], name,
                           <<"MCP bridge initialization failed">>)]
  ELSE mcp_server_bound(m, [S EXCEPT !.heap[id].a = c.a], name, id,
                        plugin_get_tools([S.heap[id] EXCEPT !.a = c.a], env.tools))

_load_mcp_server(m, S, server_type, env) ==
  LET matching == SelectSeq(list_mcp_servers(S.servers_db),
                            LAMBDA n : S.servers_db[n].server_type = server_type)
      name == matching[1]
      id == mcp_plugin_of(S, server_type)
  IN IF matching = <<>> THEN [m |-> m, s |-> S]
     ELSE IF id = NotLoaded
     THEN [m |-> m, s |-> server_error(S, name, <<"Plugin not found">>)]
     ELSE mcp_server_configured(
            m, S, name, id, env,
            plugin_configure(S.heap[id], descriptor(S.servers_db[name]), env.conf))

\* MCP_SERVERS_ENABLED, split at the commas
EnabledLists == {<<>>, <<"firebase">>, <<"github">>, <<"firebase", "github">>}

\* the loop over the enabled types from position i on, R being the manager
\* and the system the loads before made
RECURSIVE load_enabled(_, _, _, _)
load_enabled(R, enabled_servers, i, env) ==
  IF i > Len(enabled_servers) THEN R
  ELSE load_enabled(_load_mcp_server(R.m, R.s, enabled_servers[i], env),
                    enabled_servers, i + 1, env)

\* a manager that loads every server type, allow-listed or not
load_every_server_type(m, S, enabled_servers, env) ==
  load_enabled([m |-> m, s |-> S], <<"firebase", "github">>, 1, env)

_load_enabled_mcp_servers(m, S, enabled_servers, env) ==
  load_enabled([m |-> m, s |-> S], enabled_servers, 1, env)

\* The environment of one initialize(): the outcomes of the bulk load,
\* MCP_AUTO_INITIALIZE, MCP_SERVERS_ENABLED, the outcomes of each server load.
StartOutcomes ==
  [loads : [PluginNames -> BulkLoadOutcomes], conf : PluginConfigureOutcomes,
   auto : BOOLEAN, enabled : EnabledLists, server : ServerLoadOutcomes]

\* self.is_initialized = True, r being what the loads made and descriptors
\* the mcp_servers table as the loads found it
initialized(r, global, descriptors) ==
  [m |-> [r.m EXCEPT !.is_initialized = TRUE], s |-> r.s, global |-> global,
   exc |-> NoExc, descriptors |-> descriptors]

\* initialize() from the loads of the servers on, S being the system after
\* the default configurations
initialize_configured(m, g, env, S) ==
  initialized(
    _load_enabled_mcp_servers([m EXCEPT !.plugin_loader = g.global], S,
                              env.enabled, env.server),
    g.global, S.servers_db)

\* initialize() once it has the loader g
initialize_with_loader(m, g, env) ==
  initialize_configured(
    m, g, env,
    IF env.auto THEN _initialize_default_configurations(g.s) ELSE g.s)

MCPIntegrationManager_initialize(m, S, global, env) ==
  initialize_with_loader(m, get_plugin_loader(S, global, env.loads, env.conf), env)

\* a name that is no key of any map
UnknownServer == "nope"
\* server_name in self.mcp_servers
Bound(m, server_name) ==
  server_name \in ServerNames /\ m.mcp_servers[server_name] # NotLoaded
\* self.mcp_servers.items()
bound_server_names(m) == {n \in ServerNames : Bound(m, n)}

\* a manager that lists every server it has heard of
registered_servers(m) == ServerNames

\* list(self.mcp_servers.keys()), for the answer to an unknown name
available_servers(m) == {n \in ServerNames : Bound(m, n)}

\* What the bound plugin's execute does: what the plugin of this repository
\* does; or, of a plugin that breaks the contract, it raises, or it returns
\* a value that is no mapping (result.get then raises AttributeError).
PluginBehaviours == {"plugin", "raises", "not_a_mapping"}

\* a manager with no handler around the call
CaughtNothing(exc) == FALSE

\* the handler of execute_mcp_tool, "except Exception"
ManagerCaught(exc) == exc # NoExc

\* execute_mcp_tool on a bound server; p is what the plugin's execute() did
mcp_tool_result(S, id, behaviour, p) ==
  LET exc == CASE behaviour = "raises" -> "Exception"
               [] behaviour = "not_a_mapping" -> "AttributeError"
               [] OTHER -> p.exc
      S1 == IF behaviour = "plugin" THEN [S EXCEPT !.heap[id].a = p.a] ELSE S
      ops == IF behaviour = "plugin" THEN p.ops ELSE {}
  IN IF exc = NoExc
     THEN [s |-> S1, exc |-> NoExc, calls |-> <<"execute">>, ops |-> ops,
           value |-> IF p.value.success
                     THEN [p.value EXCEPT !.keys = @ \cup {"mcp_server", "server_type"}]
                     ELSE p.value]
     ELSE IF ManagerCaught(exc)
     THEN [s |-> S1, exc |-> NoExc, calls |-> <<"execute">>, ops |-> ops,
           value |-> Mapping({"success", "error", "mcp_server", "tool"}, FALSE)]
     ELSE [s |-> S1, exc |-> exc, calls |-> <<"execute">>, ops |-> ops,
           value |-> NoMapping]

execute_mcp_tool(m, S, server_name, tool_name, resp, behaviour) ==
  IF ~Bound(m, server_name)
  THEN [s |-> S, exc |-> NoExc, calls |-> <<>>, ops |-> {},
        value |-> [Mapping({"success", "error", "available_servers"}, FALSE)
                     EXCEPT !.available_servers = available_servers(m)]]
  ELSE mcp_tool_result(S, m.mcp_servers[server_name], behaviour,
                       plugin_execute(S.heap[m.mcp_servers[server_name]],
                                      tool_name, resp))

\* a manager that lets the exception of a plugin's get_tools() through
mcp_tools_unguarded(m, S, r) ==
  [s |-> after_each(S, m.mcp_servers, r, bound_server_names(m)),
   exc |-> IF \E n \in bound_server_names(m) : r[n].exc # NoExc
           THEN "MCPCommunicationError" ELSE NoExc,
   raised |-> {n \in bound_server_names(m) : r[n].exc # NoExc},
   value |-> [n \in bound_server_names(m) |->
                IF r[n].exc = NoExc THEN r[n].value ELSE {}]]

\* the map of tools, r being what each get_tools() gave; an exception gives
\* that server no tools; raised is the servers whose get_tools() raised
mcp_tools(m, S, r) ==
  [s |-> after_each(S, m.mcp_servers, r, bound_server_names(m)),
   exc |-> NoExc,
   raised |-> {n \in bound_server_names(m) : r[n].exc # NoExc},
   value |-> [n \in bound_server_names(m) |->
                IF r[n].exc = NoExc THEN r[n].value ELSE {}]]

\* get_tools() on every bound plugin
get_all_mcp_tools(m, S, env) ==
  mcp_tools(m, S, [n \in bound_server_names(m) |->
                     plugin_get_tools(S.heap[m.mcp_servers[n]], env)])

\* sum(s.get("tool_count", 0) for s in server_status)
RECURSIVE sum_tool_counts(_, _)
sum_tool_counts(servers, names) ==
  IF names = {} THEN 0
  ELSE LET n == CHOOSE x \in names : TRUE
       IN (IF servers[n].tool_count = NoCount THEN 0 ELSE servers[n].tool_count)
            + sum_tool_counts(servers, names \ {n})

\* the entries of server_status, r being what get_info() and get_tools()
\* gave for each bound server: an exception gives the entry
\* {name, status: "error", error}, which has no tool_count
server_status(m, r) ==
  [n \in bound_server_names(m) |->
     IF r[n].exc # NoExc THEN [status |-> "error", tool_count |-> NoCount]
     ELSE [status |-> "active", tool_count |-> Cardinality(r[n].value)]]

\* a manager with no handler around get_info() and get_tools()
mcp_status_unguarded(m, S, r) ==
  [s |-> after_each(S, m.mcp_servers, r, bound_server_names(m)),
   exc |-> IF \E n \in bound_server_names(m) : r[n].exc # NoExc
           THEN "Exception" ELSE NoExc,
   raised |-> {n \in bound_server_names(m) : r[n].exc # NoExc},
   value |-> [integration_status |-> "inactive", total_servers |-> 0,
              active_servers |-> 0, total_tools |-> 0,
              servers |-> server_status(m, r)]]

\* the report, with its totals; raised is the servers whose plugin raised
mcp_status(m, S, r) ==
  [s |-> after_each(S, m.mcp_servers, r, bound_server_names(m)),
   exc |-> NoExc,
   raised |-> {n \in bound_server_names(m) : r[n].exc # NoExc},
   value |->
     [integration_status |-> IF m.is_initialized THEN "active" ELSE "inactive",
      total_servers |-> Cardinality(bound_server_names(m)),
      active_servers |->
        Cardinality({n \in bound_server_names(m) :
                       server_status(m, r)[n].status = "active"}),
      total_tools |-> sum_tool_counts(server_status(m, r), bound_server_names(m)),
      servers |-> server_status(m, r)]]

\* What the bound plugin's get_info() does: it returns (every plugin of
\* this repository: it only reads fields), or, of a plugin that breaks the
\* contract, it raises
InfoBehaviours == {"returns", "raises"}

\* plugin.get_info(), then plugin.get_tools(), on every bound plugin; when
\* get_info() raises, get_tools() is not called
get_mcp_status(m, S, env, info) ==
  mcp_status(m, S,
             [n \in bound_server_names(m) |->
                IF info = "raises"
                THEN [a |-> S.heap[m.mcp_servers[n]].a, exc |-> "Exception",
                      ops |-> {}, value |-> {}]
                ELSE plugin_get_tools(S.heap[m.mcp_servers[n]], env)])

\* True, whatever the load did
mcp_server_reloaded(r) == [m |-> r.m, s |-> r.s, value |-> TRUE, exc |-> NoExc]

\* a reload that leaves the binding in place while it loads
keep_mcp_server(m, server_name) == m

\* del self.mcp_servers[server_name]
del_mcp_server(m, server_name) == [m EXCEPT !.mcp_servers[server_name] = NotLoaded]

reload_mcp_server(m, S, server_name, env) ==
  IF ~Bound(m, server_name)
  THEN [m |-> m, s |-> S, value |-> FALSE, exc |-> NoExc]
  ELSE mcp_server_reloaded(
         _load_mcp_server(del_mcp_server(m, server_name), S,
                          S.servers_db[server_name].server_type, env))
(* ------------------- the adapter, driven by a caller ------------------ *)
NoValue == [success |-> FALSE, error |-> NULL, tool |-> "none"]

\* The record of the last call: what was called and with what, the outcome
\* the outside gave, and what the call handed back.  mid is the adapter's
\* place between the cleanup and the initialize of a re-configuration.
Call(op, arg, resp, r, value, mid) ==
  [op |-> op, arg |-> arg, resp |-> resp, exc |-> r.exc, value |-> value,
   ops |-> r.ops, calls |-> r.calls, mid |-> mid]

\* what get_tools() returned: the names of the tools
ToolList(tools) == [tools |-> tools]

Room(a) == a.mcp_status.error_count < MaxErrors

(* ------------------ the records of the last calls --------------------- *)
\* The loader's last call: the method and the plugin name, the outcome (per
\* discovered plugin, in PluginOrder: the step its load failed at, or
\* "none") and what reading the configuration gave, what was returned, the
\* new instance, and the steps the method took on the plugin.
LCall(op, name, value, ret, exc, calls, new, failures, config) ==
  [op |-> op, name |-> name, value |-> value, ret |-> ret, exc |-> exc,
   calls |-> calls, new |-> new, failures |-> failures, config |-> config]
NoLCall == LCall("none", "none", "none", NoMapping, NoExc, <<>>, NotLoaded, <<>>, "none")

\* The manager's last call: the method, the server and tool named (for
\* initialize, the allow-list of server types it read), what the
\* plugin was made to do, what was returned, the plugin methods called and
\* the transport operations performed.
MCall(op, server, tool, behaviour, value, result, exc, calls, ops) ==
  [op |-> op, server |-> server, tool |-> tool, behaviour |-> behaviour,
   value |-> value, result |-> result, exc |-> exc, calls |-> calls, ops |-> ops]
\* what get_all_mcp_tools returned: the map from server name to tool
\* names, and the servers whose plugin raised
ToolsMap(tools, raised) == [kind |-> "tools", tools |-> tools, raised |-> raised]
\* what get_mcp_status returned, and the servers whose plugin raised
StatusReport(report, raised) == [kind |-> "status", report |-> report, raised |-> raised]
\* what one initialize() read and did before its loads: MCP_AUTO_INITIALIZE,
\* and the mcp_servers table after _initialize_default_configurations
Startup(auto, descriptors) == [kind |-> "startup", auto |-> auto, descriptors |-> descriptors]
NoMCall == MCall("none", "none", "none", "none", NoMapping, "none", NoExc, <<>>, {})

\* The last call on the plugins directory: the method and the plugin name,
\* the names discovered, the class instantiated, and the error logged.
DCall(op, name, value, instance, error) ==
  [op |-> op, name |-> name, value |-> value, instance |-> instance, error |-> error]
NoDCall == DCall("none", <<>>, {}, "None", NULL)

\* the parts of the system a specification does not drive stay as made
\* no task is inside a call, and no process has pipes
NoPipe == [stdin |-> <<>>, stdout |-> <<>>, waiter |-> 0, sent |-> 0]
TasksIdle ==
  /\ tasks = <<>>
  /\ pipe = NoPipe
DirectoryIdle ==
  /\ plugins_directory = {}
  /\ dcall = NoDCall
  /\ TasksIdle
BridgeIdle ==
  /\ DirectoryIdle
  /\ adapter = NoBridge
  /\ last = Call("none", "none", "none", Ret(adapter, NoExc, {}, <<>>), NoValue,
                 State(adapter))
LoaderIdle ==
  /\ loader = PluginLoader
  /\ heap = <<>>
  /\ plugins_db = [n \in PluginNames |-> NoPlugin]
  /\ servers_db = [n \in ServerNames |-> NoServer]
  /\ lcall = NoLCall
ManagerIdle ==
  /\ manager = MCPIntegrationManager
  /\ plugin_loader = "None"
  /\ mcall = NoMCall

BridgeInit ==
  /\ \E cfg \in Configs : adapter = MCPBridgePlugin(cfg)
  /\ last = Call("none", "none", "none", Ret(adapter, NoExc, {}, <<>>), NoValue,
                 State(adapter))
  /\ LoaderIdle
  /\ ManagerIdle
  /\ DirectoryIdle

\* initialize(), as the loader calls it on a new instance and a caller on an
\* adapter that is not initialized
BInitialize ==
  /\ ~adapter.is_initialized
  /\ Room(adapter)
  /\ \E env \in InitOutcomes :
       LET r == initialize(adapter, env)
       IN /\ adapter' = r.a
          /\ last' = Call("initialize", "none", env, r, NoValue, State(adapter))
  /\ UNCHANGED <<lvars, mvars, xvars>>

BGetTools ==
  /\ Room(adapter)
  /\ \E env \in IF adapter.is_initialized THEN {NoInit} ELSE InitOutcomes :
       LET r == get_tools(adapter, env)
       IN /\ adapter' = r.a
          /\ last' = Call("get_tools", "none", env, r, ToolList(r.value),
                          State(adapter))
  /\ UNCHANGED <<lvars, mvars, xvars>>

BExecute ==
  /\ Room(adapter)
  /\ \E tool \in ToolNames, resp \in ExecOutcomes :
       LET r == execute(adapter, tool, resp)
       IN /\ adapter' = r.a
          /\ last' = Call("execute", tool, resp, r, r.value, State(adapter))
  /\ UNCHANGED <<lvars, mvars, xvars>>

BConfigure ==
  /\ Room(adapter)
  /\ \E config \in Configs :
     \E env \in IF adapter.is_initialized THEN ConfigureOutcomes ELSE {NoConfigure} :
       LET r == configure_mcp_server(adapter, config, env)
       IN /\ adapter' = r.a
          /\ last' = Call("configure_mcp_server", config.communication_method,
                          env.init, r, NoValue, r.mid)
  /\ UNCHANGED <<lvars, mvars, xvars>>

BCleanup ==
  /\ \E close \in CloseOutcomes :
       LET r == cleanup(adapter, close)
       IN /\ adapter' = r.a
          /\ last' = Call("cleanup", "none", close, r, NoValue, State(adapter))
  /\ UNCHANGED <<lvars, mvars, xvars>>

\* the external server process dies on its own
ProcessExit ==
  /\ adapter.process = "running"
  /\ adapter' = [adapter EXCEPT !.process = "exited"]
  /\ last' = Call("process_exit", "none", "none", Ret(adapter, NoExc, {}, <<>>),
                  NoValue, State(adapter))
  /\ UNCHANGED <<lvars, mvars, xvars>>

BridgeNext ==
  \/ BInitialize
  \/ BGetTools
  \/ BExecute
  \/ BConfigure
  \/ BCleanup
  \/ ProcessExit

SpecBridge == BridgeInit /\ [][BridgeNext]_vars

(* ------------------- the loader, driven by a caller ------------------- *)
LState == Sys(loader, heap, plugins_db, servers_db)

\* An object nothing refers to any more can be neither called nor compared:
\* it is kept as a place in heap, so that no reference is ever given twice,
\* and its attributes are forgotten.
Dropped == [class |-> "dropped", a |-> NoBridge]

references(l, m) ==
  {l.loaded_plugins[n] : n \in PluginNames} \cup {l.mcp_servers[n] : n \in ServerNames}
    \cup {m.mcp_servers[n] : n \in ServerNames}

RECURSIVE collect(_, _, _)
collect(h, refs, id) ==
  IF id > Len(h) THEN h
  ELSE collect(IF id \in refs THEN h ELSE [h EXCEPT ![id] = Dropped], refs, id + 1)

\* the loader, the objects and the tables become those of S, under manager m
Becomes(S, m) ==
  /\ loader' = S.loader
  /\ heap' = collect(S.heap, references(S.loader, m), 1)
  /\ plugins_db' = S.plugins_db
  /\ servers_db' = S.servers_db

\* room left in the counters and in the objects' error counts
HeapRoom == \A id \in DOMAIN heap : heap[id].a.mcp_status.error_count < MaxPluginErrors
StatsRoom(n) ==
  /\ loader.plugin_stats.total_failed + n <= MaxCount
  /\ loader.plugin_stats.total_loaded + n <= MaxCount
  /\ loader.plugin_stats.mcp_servers_active + n <= MaxCount

\* the mcp_servers table as earlier runs left it: no row, the default rows
\* with the status a run gave them, or what delete_mcp_server("firebase_mcp")
\* left of them
StoredServers ==
  {[n \in ServerNames |-> NoServer]} \cup
  {[initialize_default_mcp_servers([n \in ServerNames |-> NoServer])
      EXCEPT !["firebase_mcp"] = NoServer, !["github_mcp"].status = "active"]} \cup
  {[initialize_default_mcp_servers([n \in ServerNames |-> NoServer])
      EXCEPT !["firebase_mcp"].status = f, !["github_mcp"].status = g] :
     f \in {"inactive", "active"}, g \in {"active"}}

LoaderInit ==
  /\ loader = PluginLoader
  /\ heap = <<>>
  /\ plugins_db = [n \in PluginNames |-> NoPlugin]
  /\ servers_db \in StoredServers
  /\ lcall = NoLCall
  /\ BridgeIdle
  /\ ManagerIdle

LLoadPlugin ==
  /\ Len(heap) < MaxInstances
  /\ StatsRoom(1)
  /\ \E name \in PluginNames, env \in LoadOutcomes :
       \E r \in {load_plugin(LState, name, env)} :
          /\ Becomes(r.s, manager)
          /\ lcall' = LCall("load_plugin", name,
                            IF r.value = NotLoaded THEN "None" ELSE "instance",
                            NoMapping, r.exc, <<>>, r.value, <<r.failure>>,
                            r.config)
  /\ UNCHANGED <<xvars, bvars, mvars>>

LLoadAllPlugins ==
  /\ Len(heap) + Len(PluginOrder) <= MaxInstances
  /\ StatsRoom(Len(PluginOrder))
  /\ HeapRoom
  /\ \E envs \in [PluginNames -> BulkLoadOutcomes], conf \in PluginConfigureOutcomes :
       \E r \in {load_all_plugins(LState, envs, conf)} :
          /\ Becomes(r.s, manager)
          /\ lcall' = LCall("load_all_plugins", "none", "dict", NoMapping, r.exc,
                            <<>>, NotLoaded, r.failures, "none")
  /\ UNCHANGED <<xvars, bvars, mvars>>

LReloadPlugin ==
  /\ Len(heap) < MaxInstances
  /\ StatsRoom(1)
  /\ \E name \in PluginNames, close \in CloseOutcomes, env \in LoadOutcomes :
       \E r \in {reload_plugin(LState, name, close, env)} :
          /\ Becomes(r.s, manager)
          /\ lcall' = LCall("reload_plugin", name,
                            IF r.value THEN "True" ELSE "False",
                            NoMapping, r.exc, r.calls, r.new, <<>>, "none")
  /\ UNCHANGED <<xvars, bvars, mvars>>

LUnloadPlugin ==
  /\ \E name \in PluginNames, close \in CloseOutcomes :
       \E r \in {unload_plugin(LState, name, close)} :
          /\ Becomes(r.s, manager)
          /\ lcall' = LCall("unload_plugin", name,
                            IF r.value THEN "True" ELSE "False",
                            NoMapping, r.exc, r.calls, NotLoaded, <<>>, "none")
  /\ UNCHANGED <<xvars, bvars, mvars>>

LGetPluginTools ==
  /\ HeapRoom
  /\ \E env \in PluginInitOutcomes :
       \E r \in {get_plugin_tools(LState, env)} :
          /\ Becomes(r.s, manager)
          /\ lcall' = LCall("get_plugin_tools", "none", "dict", NoMapping, r.exc,
                            <<>>, NotLoaded, <<>>, "none")
  /\ UNCHANGED <<xvars, bvars, mvars>>

\* the tools a caller of the loader names: one the server has, one nothing
\* has, and the one of GitHubPlugin that can raise
LoaderTools == {"t1", UnknownTool, "create_readme"}

LExecutePluginTool ==
  /\ HeapRoom
  /\ \E name \in PluginNames, tool \in LoaderTools, resp \in {"ok", "error"} :
       \E r \in {execute_plugin_tool(LState, name, tool, resp)} :
          /\ Becomes(r.s, manager)
          /\ lcall' = LCall("execute_plugin_tool", name, "dict", r.value, r.exc,
                            <<>>, NotLoaded, <<>>, "none")
  /\ UNCHANGED <<xvars, bvars, mvars>>

LGetPluginStatus ==
  /\ HeapRoom
  /\ \E env \in PluginInitOutcomes :
       \E r \in {get_plugin_status(LState, env)} :
          /\ Becomes(r.s, manager)
          /\ lcall' = LCall("get_plugin_status", "none", "dict", NoMapping, r.exc,
                            <<>>, NotLoaded, <<>>, "none")
  /\ UNCHANGED <<xvars, bvars, mvars>>

LoaderNext ==
  \/ LLoadPlugin
  \/ LLoadAllPlugins
  \/ LReloadPlugin
  \/ LUnloadPlugin
  \/ LGetPluginTools
  \/ LExecutePluginTool
  \/ LGetPluginStatus

SpecLoader == LoaderInit /\ [][LoaderNext]_vars

(* ------------------ the manager, driven by a caller ------------------- *)
ManagerInit ==
  /\ manager = MCPIntegrationManager
  /\ plugin_loader = "None"
  /\ mcall = NoMCall
  /\ loader = PluginLoader
  /\ heap = <<>>
  /\ plugins_db = [n \in PluginNames |-> NoPlugin]
  /\ servers_db \in StoredServers
  /\ lcall = NoLCall
  /\ BridgeIdle

\* initialize(), at startup or by get_mcp_manager() on a manager that is not
\* initialized
MInitialize ==
  /\ ~manager.is_initialized
  /\ \E env \in StartOutcomes :
       \E r \in {MCPIntegrationManager_initialize(manager, LState, plugin_loader, env)} :
          /\ manager' = r.m
          /\ plugin_loader' = r.global
          /\ Becomes(r.s, r.m)
          /\ mcall' = MCall("initialize", env.enabled, "none", "none",
                            Startup(env.auto, r.descriptors), "none", r.exc, <<>>, {})
  /\ UNCHANGED <<xvars, bvars, lcall>>

\* the servers and tools a caller of the manager names
ServerArgs == ServerNames \cup {UnknownServer}
ManagerTools == {"t1", UnknownTool}

MExecuteMcpTool ==
  /\ HeapRoom
  /\ \E server \in ServerArgs, tool \in ManagerTools, resp \in ExecOutcomes,
        behaviour \in PluginBehaviours :
       \E r \in {execute_mcp_tool(manager, LState, server, tool, resp, behaviour)} :
          /\ Becomes(r.s, manager)
          /\ mcall' = MCall("execute_mcp_tool", server, tool, behaviour, r.value,
                            "none", r.exc, r.calls, r.ops)
  /\ UNCHANGED <<xvars, bvars, lcall, manager, plugin_loader>>

MGetAllMcpTools ==
  /\ HeapRoom
  /\ \E env \in PluginInitOutcomes :
       \E r \in {get_all_mcp_tools(manager, LState, env)} :
          /\ Becomes(r.s, manager)
          /\ mcall' = MCall("get_all_mcp_tools", "none", "none", "none",
                            ToolsMap(r.value, r.raised), "dict", r.exc, <<>>, {})
  /\ UNCHANGED <<xvars, bvars, lcall, manager, plugin_loader>>

MGetMcpStatus ==
  /\ HeapRoom
  /\ \E env \in PluginInitOutcomes, info \in InfoBehaviours :
       \E r \in {get_mcp_status(manager, LState, env, info)} :
          /\ Becomes(r.s, manager)
          /\ mcall' = MCall("get_mcp_status", "none", "none", info,
                            StatusReport(r.value, r.raised), "dict", r.exc, <<>>, {})
  /\ UNCHANGED <<xvars, bvars, lcall, manager, plugin_loader>>

MReloadMcpServer ==
  /\ HeapRoom
  /\ \E server \in ServerArgs, env \in ServerLoadOutcomes :
       \E r \in {reload_mcp_server(manager, LState, server, env)} :
          /\ manager' = r.m
          /\ Becomes(r.s, r.m)
          /\ mcall' = MCall("reload_mcp_server", server, "none", "none", NoMapping,
                            IF r.value THEN "True" ELSE "False", r.exc, <<>>, {})
  /\ UNCHANGED <<xvars, bvars, lcall, plugin_loader>>

\* the external server process of a plugin dies on its own
MProcessExit ==
  /\ \E id \in DOMAIN heap :
       /\ heap[id].a.process = "running"
       /\ heap' = [heap EXCEPT ![id].a.process = "exited"]
  /\ mcall' = MCall("process_exit", "none", "none", "none", NoMapping, "none",
                    NoExc, <<>>, {})
  /\ UNCHANGED <<xvars, bvars, lcall, manager, plugin_loader, loader, plugins_db, servers_db>>

ManagerNext ==
  \/ MInitialize
  \/ MExecuteMcpTool
  \/ MGetAllMcpTools
  \/ MGetMcpStatus
  \/ MReloadMcpServer
  \/ MProcessExit

SpecManager == ManagerInit /\ [][ManagerNext]_vars


(* ------------- discovery and the lookup of the plugin class ----------- *)
\* A file name, in parts: the last part is the suffix, the parts before it
\* the stem.  These are the files of the plugins package, and the module
\* of one more server type written as firebase_mcp_plugin is.
PluginFiles ==
  {<<"__init__", ".py">>, <<"base", "_plugin", ".py">>, <<"plugin", "_loader", ".py">>,
   <<"mcp_bridge", "_plugin", ".py">>, <<"firebase_mcp", "_plugin", ".py">>,
   <<"github", "_plugin", ".py">>, <<"slack_mcp", "_plugin", ".py">>}

\* glob("*_plugin.py")
glob_plugin(file) ==
  /\ Len(file) >= 2
  /\ file[Len(file)] = ".py"
  /\ file[Len(file) - 1] = "_plugin"

\* file_path.stem
stem(file) == SubSeq(file, 1, Len(file) - 1)

discover_plugins(directory) ==
  {stem(file) : file \in {f \in directory :
                            /\ glob_plugin(f)
                            /\ f \notin {<<"__init__", ".py">>, <<"base", "_plugin", ".py">>}}}

\* The classes a module of the package can hold: for each, the classes it
\* derives from, and whether abstract methods are left without a body.
Classes ==
  [BasePlugin |-> [bases |-> {}, abstract |-> TRUE],
   MCPBridgePlugin |-> [bases |-> {"BasePlugin"}, abstract |-> TRUE],
   MCPCommunicationError |-> [bases |-> {}, abstract |-> FALSE],
   FirebaseMCPPlugin |-> [bases |-> {"MCPBridgePlugin", "BasePlugin"}, abstract |-> FALSE],
   GitHubPlugin |-> [bases |-> {"BasePlugin"}, abstract |-> FALSE],
   SlackMCPPlugin |-> [bases |-> {"MCPBridgePlugin", "BasePlugin"}, abstract |-> FALSE]]

\* the names of the classes, sorted as dir() sorts the names of a module
SortedNames ==
  <<"BasePlugin", "FirebaseMCPPlugin", "GitHubPlugin", "MCPBridgePlugin",
    "MCPCommunicationError", "SlackMCPPlugin">>

\* The classes among the attributes of each module: those it defines and
\* those it imports.
ModuleClasses ==
  [n \in {stem(f) : f \in PluginFiles} |->
     IF n = <<"mcp_bridge", "_plugin">>
     THEN {"BasePlugin", "MCPBridgePlugin", "MCPCommunicationError"}
     ELSE IF n = <<"firebase_mcp", "_plugin">> THEN {"FirebaseMCPPlugin", "MCPBridgePlugin"}
     ELSE IF n = <<"github", "_plugin">> THEN {"BasePlugin", "GitHubPlugin"}
     ELSE IF n = <<"slack_mcp", "_plugin">> THEN {"MCPBridgePlugin", "SlackMCPPlugin"}
     ELSE IF n = <<"base", "_plugin">> THEN {"BasePlugin"}
     ELSE {}]

\* dir(module), the classes of it
dir(module) == SelectSeq(SortedNames, LAMBDA c : c \in ModuleClasses[module])

\* issubclass(attr, BasePlugin) and attr != BasePlugin
is_plugin_class(attr) == "BasePlugin" \in Classes[attr].bases

\* the loop over dir(module), with its break: the first name that passes
find_plugin_class(module) ==
  IF SelectSeq(dir(module), is_plugin_class) = <<>> THEN "None"
  ELSE SelectSeq(dir(module), is_plugin_class)[1]

\* load_plugin up to the instance: the class found is called; a class with
\* abstract methods raises TypeError, no class is PluginLoadError; either
\* way the handler logs "Failed to load plugin" and None is returned
instantiate_plugin(cls) ==
  IF cls = "None"
  THEN [instance |-> "None", error |-> <<"Failed to load plugin", "No plugin class found">>]
  ELSE IF Classes[cls].abstract
  THEN [instance |-> "None",
        error |-> <<"Failed to load plugin", "Can't instantiate abstract class">>]
  ELSE [instance |-> cls, error |-> NULL]

DiscoveryInit ==
  /\ plugins_directory \in SUBSET PluginFiles
  /\ dcall = NoDCall
  /\ TasksIdle
  /\ adapter = NoBridge
  /\ last = Call("none", "none", "none", Ret(adapter, NoExc, {}, <<>>), NoValue,
                 State(adapter))
  /\ LoaderIdle
  /\ ManagerIdle

DDiscoverPlugins ==
  /\ dcall' = DCall("discover_plugins", <<>>, discover_plugins(plugins_directory),
                    "None", NULL)
  /\ UNCHANGED <<plugins_directory, tasks, pipe, bvars, lvars, mvars>>

\* load_plugin of a module of the directory, up to the instance
DLoadPlugin ==
  /\ \E file \in plugins_directory :
       \E r \in {instantiate_plugin(find_plugin_class(stem(file)))} :
          dcall' = DCall("load_plugin", stem(file), {}, r.instance, r.error)
  /\ UNCHANGED <<plugins_directory, tasks, pipe, bvars, lvars, mvars>>

DiscoveryNext ==
  \/ DDiscoverPlugins
  \/ DLoadPlugin

SpecDiscovery == DiscoveryInit /\ [][DiscoveryNext]_vars

(* ---------- tasks that call one stdio adapter at the same time -------- *)
\* the tasks of the event loop
Tasks == {1, 2}
\* request lines written to one server process
MaxRequests == 3

\* the JSON-RPC methods of the two exchanges
StdioMethods == {"tools/call", "tools/list"}

\* A task of the stdio exchange: at "idle" it is outside a call, at
\* "readline" it has written its request line and is about to look at
\* stdout, at "waiting" it is the reader's waiter.  request is the line it
\* wrote, parsed the request the line it read answers, outcome how its last
\* call ended.
StdioTask(pc, method, request, parsed, outcome) ==
  [pc |-> pc, method |-> method, request |-> request, parsed |-> parsed,
   outcome |-> outcome]

StdioInit ==
  /\ tasks = [t \in Tasks |-> StdioTask("idle", "none", 0, 0, "none")]
  /\ pipe = NoPipe
  /\ plugins_directory = {}
  /\ dcall = NoDCall
  /\ adapter = NoBridge
  /\ last = Call("none", "none", "none", Ret(adapter, NoExc, {}, <<>>), NoValue,
                 State(adapter))
  /\ LoaderIdle
  /\ ManagerIdle

\* stdin.write(message_json) and drain(): the line is in the server's
\* stdin.  drain() suspends the task when the transport is paused, so
\* another task may run before this one reaches readline().
stdin_write(p, method) ==
  [p EXCEPT !.stdin = Append(@, [id |-> p.sent + 1, method |-> method]),
            !.sent = @ + 1]

StdioWrite(t) ==
  /\ tasks[t].pc = "idle"
  /\ pipe.sent < MaxRequests
  /\ \E method \in StdioMethods :
       /\ pipe' = stdin_write(pipe, method)
       /\ tasks' = [tasks EXCEPT ![t] =
                      StdioTask("readline", method, pipe.sent + 1, 0, "none")]
  /\ UNCHANGED <<plugins_directory, dcall, bvars, lvars, mvars>>

\* stdout.readline(): the first line of the buffer when there is one; with
\* an empty buffer the task becomes the reader's waiter, and a second task
\* that would wait gets RuntimeError from the StreamReader
readline(p, task, t) ==
  IF p.stdout # <<>>
  THEN [pipe |-> [p EXCEPT !.stdout = Tail(@)],
        task |-> StdioTask("idle", task.method, task.request, Head(p.stdout), "parsed")]
  ELSE IF p.waiter # 0
  THEN [pipe |-> p,
        task |-> StdioTask("idle", task.method, task.request, 0, "RuntimeError")]
  ELSE [pipe |-> [p EXCEPT !.waiter = t],
        task |-> StdioTask("waiting", task.method, task.request, 0, "none")]

StdioReadline(t) ==
  /\ tasks[t].pc = "readline"
  /\ \E r \in {readline(pipe, tasks[t], t)} :
       /\ pipe' = r.pipe
       /\ tasks' = [tasks EXCEPT ![t] = r.task]
  /\ UNCHANGED <<plugins_directory, dcall, bvars, lvars, mvars>>

\* The server answers the oldest request with one line; the line wakes
\* the waiter, which looks at the buffer again when the loop resumes it.
ServerResponds ==
  /\ pipe.stdin # <<>>
  /\ pipe' = [pipe EXCEPT !.stdin = Tail(@),
                          !.stdout = Append(@, Head(pipe.stdin).id),
                          !.waiter = 0]
  /\ tasks' = IF pipe.waiter = 0 THEN tasks
              ELSE [tasks EXCEPT ![pipe.waiter].pc = "readline"]
  /\ UNCHANGED <<plugins_directory, dcall, bvars, lvars, mvars>>

StdioNext ==
  \/ \E t \in Tasks : StdioWrite(t)
  \/ \E t \in Tasks : StdioReadline(t)
  \/ ServerResponds

SpecStdio == StdioInit /\ [][StdioNext]_vars

(* -------------- calls that await an outside that is silent ------------ *)
\* seconds a call is followed for
MaxElapsed == 31
\* httpx.AsyncClient(timeout=30.0)
HttpTimeout == 30

\* A task inside execute() or initialize() of an adapter, at the await on
\* its transport: the readline() of stdio, the request of the http client,
\* the coroutine of the python module, the communicate() of a subprocess.
AwaitTask(pc, method, op, elapsed, outcome) ==
  [pc |-> pc, method |-> method, op |-> op, elapsed |-> elapsed, outcome |-> outcome]

AwaitInit ==
  /\ tasks = [t \in Tasks |-> AwaitTask("idle", "none", "none", 0, "none")]
  /\ pipe = NoPipe
  /\ plugins_directory = {}
  /\ dcall = NoDCall
  /\ adapter = NoBridge
  /\ last = Call("none", "none", "none", Ret(adapter, NoExc, {}, <<>>), NoValue,
                 State(adapter))
  /\ LoaderIdle
  /\ ManagerIdle

\* a deadline on every transport
has_timeout_everywhere(method) == TRUE

\* the await has a deadline: only the http client is made with one
has_timeout(method) == method = "http"

\* what the call hands back when the deadline passes: httpx raises, and
\* execute() turns the exception into {success: false}, initialize() into
\* MCPBridgeError
timed_out(task) ==
  AwaitTask("idle", task.method, task.op, task.elapsed,
            IF task.op = "execute" THEN "success_false" ELSE "MCPBridgeError")

\* one more second without an answer
second_passes(task) ==
  IF has_timeout(task.method) /\ task.elapsed + 1 >= HttpTimeout
  THEN timed_out([task EXCEPT !.elapsed = @ + 1])
  ELSE [task EXCEPT !.elapsed = @ + 1]

AwaitStart(t) ==
  /\ tasks[t].pc = "idle"
  /\ \E method \in Methods, op \in {"execute", "initialize"} :
       tasks' = [tasks EXCEPT ![t] = AwaitTask("awaiting", method, op, 0, "none")]
  /\ UNCHANGED <<plugins_directory, dcall, pipe, bvars, lvars, mvars>>

\* the process or the endpoint answers, and the call returns what it makes
\* of the answer
AwaitAnswered(t) ==
  /\ tasks[t].pc = "awaiting"
  /\ tasks' = [tasks EXCEPT ![t] = [@ EXCEPT !.pc = "idle", !.outcome = "answered"]]
  /\ UNCHANGED <<plugins_directory, dcall, pipe, bvars, lvars, mvars>>

\* the process or the endpoint stays silent for another second
AwaitSilent(t) ==
  /\ tasks[t].pc = "awaiting"
  /\ tasks[t].elapsed < MaxElapsed
  /\ tasks' = [tasks EXCEPT ![t] = second_passes(@)]
  /\ UNCHANGED <<plugins_directory, dcall, pipe, bvars, lvars, mvars>>

AwaitNext ==
  \/ \E t \in Tasks : AwaitStart(t)
  \/ \E t \in Tasks : AwaitAnswered(t)
  \/ \E t \in Tasks : AwaitSilent(t)

SpecAwait == AwaitInit /\ [][AwaitNext]_vars

(* ------------- tasks that ask for the loader at the same time --------- *)
\* A task inside get_plugin_loader(): at "call" it is about to read the
\* global, at "loading" it awaits load_all_plugins(), whose load tasks are
\* done up to position i of the discovered names, at "configuring" the load
\* tasks are gathered, at "returned" it has the loader.  ran says that it
\* ran the bulk load, complete whether the bulk load was over when the
\* loader was returned to it.
LoaderCaller(pc, i, successful, ran, got, complete) ==
  [pc |-> pc, i |-> i, successful |-> successful, ran |-> ran, got |-> got,
   complete |-> complete]

SingletonInit ==
  /\ tasks = [t \in Tasks |-> LoaderCaller("call", 1, {}, FALSE, "None", FALSE)]
  /\ pipe = NoPipe
  /\ plugins_directory = {}
  /\ dcall = NoDCall
  /\ manager = MCPIntegrationManager
  /\ plugin_loader = "None"
  /\ mcall = NoMCall
  /\ loader = PluginLoader
  /\ heap = <<>>
  /\ plugins_db = [n \in PluginNames |-> NoPlugin]
  /\ servers_db \in StoredServers
  /\ lcall = NoLCall
  /\ adapter = NoBridge
  /\ last = Call("none", "none", "none", Ret(adapter, NoExc, {}, <<>>), NoValue,
                 State(adapter))

\* a bulk load is under way in some task
bulk_load_running(ts) == \E u \in Tasks : ts[u].pc \in {"loading", "configuring"}

\* if plugin_loader is None: the global is assigned, and then the bulk load
\* is awaited; else the global is returned as it is
enter(task, global, running) ==
  IF global = "None"
  THEN [task |-> [task EXCEPT !.pc = "loading", !.ran = TRUE], global |-> "PluginLoader"]
  ELSE [task |-> [task EXCEPT !.pc = "returned", !.got = global, !.complete = ~running],
        global |-> global]

GetPluginLoader(t) ==
  /\ tasks[t].pc = "call"
  /\ \E r \in {enter(tasks[t], plugin_loader, bulk_load_running(tasks))} :
       /\ tasks' = [tasks EXCEPT ![t] = r.task]
       /\ plugin_loader' = r.global
  /\ UNCHANGED <<plugins_directory, dcall, pipe, bvars, lvars, manager, mcall>>

\* one load task of the bulk load finishes
BulkLoadOne(t) ==
  /\ tasks[t].pc = "loading"
  /\ Len(heap) < MaxInstances
  /\ \E env \in BulkLoadOutcomes :
       \E l \in {load_plugin(LState, PluginOrder[tasks[t].i], env)} :
          /\ Becomes(l.s, manager)
          /\ tasks' = [tasks EXCEPT ![t] =
               [@ EXCEPT !.i = @ + 1,
                         !.pc = IF tasks[t].i = Len(PluginOrder) THEN "configuring"
                                ELSE "loading",
                         !.successful = @ \cup (IF l.value # NotLoaded
                                                THEN {PluginOrder[tasks[t].i]} ELSE {})]]
  /\ UNCHANGED <<plugins_directory, dcall, pipe, bvars, lcall, mvars>>

\* the load tasks are gathered: the counts, the MCP servers, the return
BulkLoadDone(t) ==
  /\ tasks[t].pc = "configuring"
  /\ \E conf \in PluginConfigureOutcomes :
       \E r \in {load_all_loaded([s |-> LState, successful |-> tasks[t].successful,
                                  failures |-> <<>>], conf)} :
          /\ Becomes(r.s, manager)
          /\ tasks' = [tasks EXCEPT ![t] =
               [@ EXCEPT !.pc = "returned", !.got = plugin_loader, !.complete = TRUE]]
  /\ UNCHANGED <<plugins_directory, dcall, pipe, bvars, lcall, mvars>>

SingletonNext ==
  \/ \E t \in Tasks : GetPluginLoader(t)
  \/ \E t \in Tasks : BulkLoadOne(t)
  \/ \E t \in Tasks : BulkLoadDone(t)

SpecSingleton == SingletonInit /\ [][SingletonNext]_vars

(* ------- a reload and a tool call on one server at the same time ------ *)
\* A task inside a method of the manager.  A reload_mcp_server is at
\* "loading" once it has deleted the binding and awaits _load_mcp_server,
\* whose first await is the query of list_mcp_servers(); an
\* execute_mcp_tool looks the server up and calls the plugin without
\* giving up the loop in between.
ManagerTask(pc, op, server, ret, value) ==
  [pc |-> pc, op |-> op, server |-> server, ret |-> ret, value |-> value]
IdleManagerTask == ManagerTask("idle", "none", "none", "none", NoMapping)

\* the manager after a startup in which firebase_mcp was bound
Started ==
  {r \in {MCPIntegrationManager_initialize(
            MCPIntegrationManager,
            Sys(PluginLoader, <<>>, [n \in PluginNames |-> NoPlugin], db), "None", env) :
          db \in StoredServers,
          env \in {e \in StartOutcomes : e.auto /\ e.enabled = <<"firebase">>}} :
     Bound(r.m, "firebase_mcp")}

RaceInit ==
  /\ tasks = [t \in Tasks |-> IdleManagerTask]
  /\ pipe = NoPipe
  /\ plugins_directory = {}
  /\ dcall = NoDCall
  /\ \E r \in Started :
       /\ manager = r.m
       /\ plugin_loader = r.global
       /\ loader = r.s.loader
       /\ heap = collect(r.s.heap, references(r.s.loader, r.m), 1)
       /\ plugins_db = r.s.plugins_db
       /\ servers_db = r.s.servers_db
  /\ mcall = NoMCall
  /\ lcall = NoLCall
  /\ adapter = NoBridge
  /\ last = Call("none", "none", "none", Ret(adapter, NoExc, {}, <<>>), NoValue,
                 State(adapter))

\* reload_mcp_server up to its await: the check, and the del
RaceReloadStart(t) ==
  /\ tasks[t].pc = "idle"
  /\ \E server \in ServerNames :
       IF ~Bound(manager, server)
       THEN /\ tasks' = [tasks EXCEPT ![t] =
                  ManagerTask("idle", "reload_mcp_server", server, "False", NoMapping)]
            /\ manager' = manager
            /\ mcall' = MCall("reload_mcp_server", server, "none", "none", NoMapping,
                              "False", NoExc, <<>>, {})
       ELSE /\ tasks' = [tasks EXCEPT ![t] =
                  ManagerTask("loading", "reload_mcp_server", server, "none", NoMapping)]
            /\ manager' = del_mcp_server(manager, server)
            /\ mcall' = MCall("reload_mcp_server", server, "none", "none", NoMapping,
                              "none", NoExc, <<>>, {})
  /\ UNCHANGED <<plugins_directory, dcall, pipe, bvars, lvars, plugin_loader>>

\* reload_mcp_server from its await on: _load_mcp_server, and True
RaceReloadLoad(t) ==
  /\ tasks[t].pc = "loading"
  /\ HeapRoom
  /\ \E env \in ServerLoadOutcomes :
       \E r \in {_load_mcp_server(manager, LState,
                                  servers_db[tasks[t].server].server_type, env)} :
          /\ manager' = r.m
          /\ Becomes(r.s, r.m)
          /\ tasks' = [tasks EXCEPT ![t] = [@ EXCEPT !.pc = "idle", !.ret = "True"]]
          /\ mcall' = MCall("reload_mcp_server", tasks[t].server, "none", "none",
                            NoMapping, "True", NoExc, <<>>, {})
  /\ UNCHANGED <<plugins_directory, dcall, pipe, bvars, lcall, plugin_loader>>

RaceExecute(t) ==
  /\ tasks[t].pc = "idle"
  /\ HeapRoom
  /\ \E server \in ServerNames, tool \in ManagerTools, resp \in ExecOutcomes :
       \E r \in {execute_mcp_tool(manager, LState, server, tool, resp, "plugin")} :
          /\ Becomes(r.s, manager)
          /\ tasks' = [tasks EXCEPT ![t] =
               ManagerTask("idle", "execute_mcp_tool", server, "dict", r.value)]
          /\ mcall' = MCall("execute_mcp_tool", server, tool, "plugin", r.value,
                            "none", r.exc, r.calls, r.ops)
  /\ UNCHANGED <<plugins_directory, dcall, pipe, bvars, lcall, manager, plugin_loader>>

RaceNext ==
  \/ \E t \in Tasks : RaceReloadStart(t)
  \/ \E t \in Tasks : RaceReloadLoad(t)
  \/ \E t \in Tasks : RaceExecute(t)

SpecRace == RaceInit /\ [][RaceNext]_vars
(* ------------------------- the adapter's claims ----------------------- *)
Ready(a) == a.is_initialized /\ a.mcp_status.connected
Uninitialized(a) == ~a.is_initialized /\ ~a.mcp_status.connected
Failed(a) == Uninitialized(a) /\ a.mcp_status.last_error # NULL
\* the stdio process is not running and no HTTP client is open
TransportClosed(a) == a.process # "running" /\ a.mcp_client # "http"
\* the last call ran the method m
Ran(m) == \E i \in DOMAIN last.calls : last.calls[i] = m

\* C1: execute(tool_name, params) on an initialized adapter with a tool_name
\* that is not in the adapter's catalog returns success = false and performs
\* no transport operation, on every transport.
C1_UnknownToolNoTransport ==
  [][(last'.op = "execute" /\ adapter.is_initialized
        /\ last'.arg \notin adapter.mcp_tools)
       => (last'.value.success = FALSE /\ last'.ops = {})]_vars

\* C2: every initialize(), a re-initialize by configure_mcp_server included,
\* ends Ready when it returns, and Failed (not connected, not initialized,
\* last_error set) with an MCPCommunicationError when it raises.
C2_InitializeReadyOrFailed ==
  Ran("initialize") =>
    /\ last.exc = NoExc => Ready(adapter)
    /\ last.exc # NoExc => last.exc = "MCPCommunicationError" /\ Failed(adapter)

\* C3: after cleanup() on a Ready adapter the adapter is Uninitialized and its
\* transport is closed, also when the process had exited or the close raises.
C3_CleanupUninitialized ==
  [][(last'.op = "cleanup" /\ Ready(adapter))
       => (Uninitialized(adapter') /\ TransportClosed(adapter'))]_vars

\* C4: configure_mcp_server(new_config) merges new_config into mcp_config; on
\* a Ready adapter it then runs cleanup() and then initialize(), the adapter
\* passing Ready -> Uninitialized -> Ready or Failed; on an adapter that is
\* not initialized it only merges and opens no transport.
C4_ConfigureCleanupThenInitialize ==
  [][last'.op = "configure_mcp_server" =>
       /\ adapter'.mcp_config =
            dict_update(adapter.mcp_config, [communication_method |-> last'.arg])
       /\ Ready(adapter) =>
            /\ last'.calls = <<"update", "cleanup", "initialize">>
            /\ ~last'.mid.is_initialized /\ ~last'.mid.connected
            /\ Ready(adapter') \/ Failed(adapter')
       /\ ~adapter.is_initialized =>
            /\ last'.calls = <<"update">>
            /\ last'.ops = {}
            /\ adapter' = [adapter EXCEPT !.mcp_config = adapter'.mcp_config]]_vars

\* The transport-level failures of a tool call: the stdio process is not
\* running, the stdio response has an error field, the HTTP status is not
\* 2xx, the subprocess exit code is not zero, the response is malformed.
TransportFailure(a, resp) ==
  \/ a.communication_method = "stdio"
       /\ (a.process # "running" \/ resp \in {"error", "malformed"})
  \/ a.communication_method = "http" /\ a.mcp_client = "http"
       /\ resp \in {"error", "malformed"}
  \/ a.communication_method = "subprocess" /\ resp = "error"

\* C5: execute never raises; a transport-level failure of the call comes back
\* as {success: false, error}, raises error_count by exactly one and sets
\* last_error; a successful call changes neither error_count nor last_error.
C5_ExecuteNeverRaises ==
  [][last'.op = "execute" =>
       /\ last'.exc = NoExc
       /\ (adapter.is_initialized /\ TransportFailure(adapter, last'.resp)) =>
            /\ last'.value.success = FALSE
            /\ last'.value.error # NULL
            /\ adapter'.mcp_status.error_count = adapter.mcp_status.error_count + 1
            /\ adapter'.mcp_status.last_error # NULL
       /\ last'.value.success =>
            /\ adapter'.mcp_status.error_count = adapter.mcp_status.error_count
            /\ adapter'.mcp_status.last_error = adapter.mcp_status.last_error]_vars

\* a tool call whose response was no JSON came back as a failure and was counted
C5_Witness ==
  /\ last.op = "execute"
  /\ last.resp = "malformed"
  /\ last.ops = {"http_post"}
  /\ last.value.success = FALSE
  /\ adapter.mcp_status.error_count = 1

C7_UnknownServerListsBound ==
  [][(mcall'.op = "execute_mcp_tool"
        /\ mcall'.server \notin {n \in ServerNames : manager.mcp_servers[n] # NotLoaded})
       => /\ mcall'.exc = NoExc
          /\ mcall'.value.success = FALSE
          /\ mcall'.value.keys = {"success", "error", "available_servers"}
          /\ mcall'.value.available_servers =
               {n \in ServerNames : manager.mcp_servers[n] # NotLoaded}
          /\ mcall'.calls = <<>>
          /\ mcall'.ops = {}
          /\ manager' = manager
          /\ heap' = heap]_vars

\* an unknown name was answered with the one server that is bound
C7_Witness ==
  /\ mcall.op = "execute_mcp_tool"
  /\ mcall.server = UnknownServer
  /\ mcall.value.success = FALSE
  /\ mcall.value.available_servers = {"firebase_mcp"}
  /\ manager.mcp_servers["firebase_mcp"] # NotLoaded

(* ------------------------- the loader's claims ------------------------ *)
\* C8: load_plugin never raises: if the import, the class lookup, the
\* instantiation, the configuration or initialize() fails, it returns None,
\* the name is absent from loaded_plugins, the persisted plugin status is
\* error with the exception message, and total_failed has grown by exactly
\* one.  load_all_plugins on a new loader over two plugins of which exactly
\* one raises in initialize() leaves the other in loaded_plugins, the failed
\* one absent, and total_failed = 1.
C8_LoadFailureRecorded ==
  [][/\ (lcall'.op = "load_plugin"
           /\ (lcall'.failures # <<"none">> \/ lcall'.config = "raise")) =>
          /\ lcall'.exc = NoExc
          /\ lcall'.value = "None"
          /\ loader'.loaded_plugins[lcall'.name] = NotLoaded
          /\ plugins_db'[lcall'.name].status = "error"
          /\ plugins_db'[lcall'.name].error_message # NULL
          /\ loader'.plugin_stats.total_failed = loader.plugin_stats.total_failed + 1
     /\ (lcall'.op = "load_all_plugins" /\ loader = PluginLoader
           /\ lcall'.failures = <<"initialize", "none">>) =>
          /\ loader'.loaded_plugins["github_plugin"] # NotLoaded
          /\ loader'.loaded_plugins["firebase_mcp_plugin"] = NotLoaded
          /\ loader'.plugin_stats.total_failed = 1]_vars

\* C9: reload_plugin(name) runs cleanup() on the loaded instance (if there
\* is one, and it has the hook) before it removes it from loaded_plugins,
\* and only then loads afresh; it returns True exactly when the fresh load
\* produced an instance, and then loaded_plugins[name] is the new instance
\* and not the old one; when the fresh load fails it returns False and name
\* is absent from loaded_plugins.
C9_ReloadCleansUpThenLoads ==
  [][lcall'.op = "reload_plugin" =>
       LET name == lcall'.name
           old == loader.loaded_plugins[name]
           new == lcall'.new
       IN /\ lcall'.exc = NoExc
          /\ (old # NotLoaded /\ hasattr(heap[old], "cleanup")) =>
               lcall'.calls = <<"cleanup", "del", "load_plugin">>
          /\ (old # NotLoaded /\ ~hasattr(heap[old], "cleanup")) =>
               lcall'.calls = <<"del", "load_plugin">>
          /\ old = NotLoaded => lcall'.calls = <<"load_plugin">>
          /\ lcall'.value = "True" <=> new # NotLoaded
          /\ new # NotLoaded =>
               /\ loader'.loaded_plugins[name] = new
               /\ new # old
               /\ new \notin DOMAIN heap
          /\ new = NotLoaded =>
               /\ lcall'.value = "False"
               /\ loader'.loaded_plugins[name] = NotLoaded]_vars

\* a loaded FirebaseMCPPlugin was cleaned up, dropped and replaced
C9_Witness ==
  /\ lcall.op = "reload_plugin"
  /\ lcall.name = "firebase_mcp_plugin"
  /\ lcall.calls = <<"cleanup", "del", "load_plugin">>
  /\ lcall.value = "True"
  /\ lcall.new > 1
  /\ loader.loaded_plugins["firebase_mcp_plugin"] = lcall.new

\* C10: unload_plugin(name) on a loaded plugin runs its cleanup(), removes
\* name from loaded_plugins, sets the persisted plugin status to inactive and
\* returns True; on a name that is not loaded it returns False and changes
\* neither loaded_plugins nor the persisted status.  No loader operation
\* other than load_plugin, reload_plugin and load_all_plugins makes a name
\* that is not loaded loaded.
C10_UnloadRemovesAndPersists ==
  [][/\ lcall'.op = "unload_plugin" =>
          LET name == lcall'.name
              id == loader.loaded_plugins[name]
          IN IF id # NotLoaded
             THEN /\ hasattr(heap[id], "cleanup") => lcall'.calls[1] = "cleanup"
                  /\ loader'.loaded_plugins[name] = NotLoaded
                  /\ plugins_db'[name].status = "inactive"
                  /\ lcall'.value = "True"
             ELSE /\ lcall'.value = "False"
                  /\ loader'.loaded_plugins = loader.loaded_plugins
                  /\ plugins_db' = plugins_db
     /\ lcall'.op \notin {"load_plugin", "reload_plugin", "load_all_plugins"} =>
          \A n \in PluginNames :
            loader.loaded_plugins[n] = NotLoaded => loader'.loaded_plugins[n] = NotLoaded]_vars


(* -------------------- the bindings of the servers --------------------- *)
\* the plugin object a bound server must reference: the one registered in
\* loaded_plugins under {server_type}_mcp_plugin
registered_plugin(server_name) ==
  mcp_plugin_of(LState, servers_db[server_name].server_type)

\* every server bound in the map references the registered plugin object,
\* and no two bound servers reference the same object
BindingsCurrent(mcp_servers) ==
  /\ \A n \in ServerNames :
       mcp_servers[n] # NotLoaded => mcp_servers[n] = registered_plugin(n)
  /\ \A n1, n2 \in ServerNames :
       (n1 # n2 /\ mcp_servers[n1] # NotLoaded) => mcp_servers[n1] # mcp_servers[n2]

\* C11: in every reachable state, each server bound in the manager's
\* mcp_servers and in the loader's mcp_servers references the plugin object
\* that is registered in loaded_plugins under {server_type}_mcp_plugin, and
\* no two bound servers share one plugin object.
C11_BindingsReferenceLoadedPlugin ==
  /\ BindingsCurrent(loader.mcp_servers)
  /\ BindingsCurrent(manager.mcp_servers)

\* C12: reload_mcp_server(name) returns False and leaves mcp_servers as it
\* was when name is not bound; when name is bound it returns True only if
\* the reload was successful, that is, if name is bound again in mcp_servers
\* after the call.
C12_ReloadTrueOnlyIfBoundAgain ==
  [][mcall'.op = "reload_mcp_server" =>
       IF Bound(manager, mcall'.server)
       THEN mcall'.result = "True" => Bound(manager', mcall'.server)
       ELSE /\ mcall'.result = "False"
            /\ manager'.mcp_servers = manager.mcp_servers]_vars

\* the catalog a plugin object answers get_tools() with, once it has one
catalog_of(plugin) ==
  IF plugin.class = "GitHubPlugin" THEN GitHubTools
  ELSE plugin.a.mcp_tools \cup DiagnosticProTools

OpenOps == {"spawn", "http_client", "import"}

\* C14: the adapter never retries on its own: on an adapter that is Failed
\* or Uninitialized, no transport is opened unless the caller calls
\* initialize() or configure_mcp_server(); get_tools() and execute() on such
\* an adapter open no transport.
C14_NoTransportOpenedUnasked ==
  [][(Uninitialized(adapter) /\ last'.op \notin {"initialize", "configure_mcp_server"})
       => last'.ops \cap OpenOps = {}]_vars

\* C15: get_tools() is idempotent on a Ready adapter: it returns the
\* adapter's catalog, performs no transport operation and leaves the adapter
\* (mcp_tools, mcp_status, is_initialized) as it was; a call that follows
\* another get_tools() returns the same catalog as that one.
C15_GetToolsIdempotentWhenReady ==
  [][(last'.op = "get_tools" /\ Ready(adapter)) =>
       /\ last'.exc = NoExc
       /\ last'.ops = {}
       /\ adapter' = adapter
       /\ last'.value.tools = adapter.mcp_tools
       /\ last.op = "get_tools" => last'.value = last.value]_vars

\* get_tools() on a Ready adapter answered with the two tools of its catalog
\* without asking the server
C15_Witness ==
  /\ last.op = "get_tools"
  /\ last.ops = {}
  /\ last.calls = <<>>
  /\ last.value.tools = {"t1", "t2"}
  /\ Ready(adapter)

\* C16: _sync_mcp_tools replaces the tool list wholesale.  Whenever
\* initialize() has opened the transport: if the sync succeeds, mcp_tools is
\* exactly the catalog the transport returned, whatever it was before; if
\* the sync fails, mcp_tools is empty; in both cases no exception leaves
\* initialize() and the adapter ends Ready.
C16_SyncReplacesWholesale ==
  [][(last'.op \in {"initialize", "get_tools"} /\ ~adapter.is_initialized
        /\ initialize_mcp_client(adapter, last'.resp.client).exc = NoExc) =>
       /\ last'.exc = NoExc
       /\ Ready(adapter')
       /\ adapter'.mcp_tools =
            IF last'.resp.sync.out = "ok" THEN last'.resp.sync.tools ELSE {}]_vars

\* an initialize() whose sync failed ended Ready with no tools
C16_Witness ==
  /\ last.op = "initialize"
  /\ last.calls = <<"initialize">>
  /\ last.resp.client = "ok"
  /\ last.resp.sync.out = "raise"
  /\ last.exc = NoExc
  /\ adapter.mcp_tools = {}
  /\ Ready(adapter)

\* C17: an unknown tool name is not a transport error: on the python
\* transport, execute(name, {}) where the imported module has no attribute
\* name returns {success: false, error: "Unknown tool: <name>"} and leaves
\* mcp_status.error_count and mcp_status.last_error as they were.
C17_UnknownToolNotTransportError ==
  [][(last'.op = "execute" /\ adapter.is_initialized
        /\ adapter.communication_method = "python" /\ adapter.mcp_client = "module"
        /\ last'.arg \notin ModuleAttrs) =>
       /\ last'.exc = NoExc
       /\ last'.value.success = FALSE
       /\ last'.value.error = <<"Unknown tool", last'.arg>>
       /\ adapter'.mcp_status.error_count = adapter.mcp_status.error_count
       /\ adapter'.mcp_status.last_error = adapter.mcp_status.last_error]_vars

loaded_under(l, server_type) ==
  IF mcp_plugin_name(server_type) \in PluginNames
  THEN l.loaded_plugins[mcp_plugin_name(server_type)] ELSE NotLoaded

\* C19: after initialize(), every entry of mcp_servers is keyed by the name
\* of a persisted descriptor whose server_type is in the MCP_SERVERS_ENABLED
\* allow-list, and holds the plugin loaded under {server_type}_mcp_plugin; a
\* type that is not allow-listed is never bound; an allow-listed type whose
\* plugin is not in loaded_plugins is not bound and its descriptor's
\* persisted status becomes error; an empty allow-list binds nothing.
C19_InitializeBindsAllowListed ==
  [][mcall'.op = "initialize" =>
       LET enabled == {mcall'.server[i] : i \in DOMAIN mcall'.server}
       IN /\ \A n \in ServerNames :
               manager'.mcp_servers[n] # NotLoaded =>
                 /\ servers_db'[n].status # "absent"
                 /\ servers_db'[n].server_type \in enabled
                 /\ manager'.mcp_servers[n] =
                      loaded_under(loader', servers_db'[n].server_type)
          /\ \A n \in ServerNames :
               (servers_db'[n].status # "absent"
                  /\ servers_db'[n].server_type \in enabled
                  /\ loaded_under(loader', servers_db'[n].server_type) = NotLoaded) =>
                 /\ manager'.mcp_servers[n] = NotLoaded
                 /\ servers_db'[n].status = "error"
          /\ enabled = {} => \A n \in ServerNames : manager'.mcp_servers[n] = NotLoaded]_vars

\* both types were allow-listed: firebase_mcp was bound to the loaded
\* FirebaseMCPPlugin, and github_mcp, whose plugin is not loaded, was not
\* bound and its descriptor was set to error
C19_Witness ==
  /\ mcall.op = "initialize"
  /\ mcall.server = <<"firebase", "github">>
  /\ manager.mcp_servers["firebase_mcp"] # NotLoaded
  /\ manager.mcp_servers["firebase_mcp"] = loader.loaded_plugins["firebase_mcp_plugin"]
  /\ manager.mcp_servers["github_mcp"] = NotLoaded
  /\ servers_db["github_mcp"].status = "error"

\* C20: get_mcp_status never raises and its totals agree with its list of
\* servers: the list has one entry per bound server, total_servers is the
\* number of bound servers, active_servers the number of entries with status
\* active, total_tools the sum of the entries' tool counts, and
\* active_servers <= total_servers; a server whose plugin raises in
\* get_info() or get_tools() is listed with status error and adds nothing to
\* active_servers and total_tools, every other server is listed as active
\* with the size of its catalog.
C20_StatusTotalsConsistent ==
  [][mcall'.op = "get_mcp_status" =>
       LET report == mcall'.value.report
           raised == mcall'.value.raised
           bound == bound_server_names(manager)
       IN /\ mcall'.exc = NoExc
          /\ DOMAIN report.servers = bound
          /\ report.total_servers = Cardinality(bound)
          /\ report.active_servers =
               Cardinality({n \in bound : report.servers[n].status = "active"})
          /\ report.active_servers = Cardinality(bound \ raised)
          /\ report.active_servers <= report.total_servers
          /\ report.total_tools = sum_tool_counts(report.servers, bound)
          /\ raised = bound => report.total_tools = 0
          /\ \A n \in bound :
               IF n \in raised
               THEN /\ report.servers[n].status = "error"
                    /\ report.servers[n].tool_count = NoCount
               ELSE /\ report.servers[n].status = "active"
                    /\ report.servers[n].tool_count =
                         Cardinality(catalog_of(heap'[manager.mcp_servers[n]]))
                    /\ raised = {} /\ bound = {n} =>
                         report.total_tools = report.servers[n].tool_count]_vars

\* the plugin bound to firebase_mcp raised: the server is listed with
\* status error, and the totals count one server, none active, no tools
C20_Witness ==
  /\ mcall.op = "get_mcp_status"
  /\ mcall.exc = NoExc
  /\ mcall.value.raised = {"firebase_mcp"}
  /\ mcall.value.report.servers["firebase_mcp"].status = "error"
  /\ mcall.value.report.total_servers = 1
  /\ mcall.value.report.active_servers = 0
  /\ mcall.value.report.total_tools = 0

(* -------------------- the adapter's claims, concluded ----------------- *)
\* C29: in every state of an adapter outside a running sync,
\* mcp_status.tool_count is the number of entries of mcp_tools, also after
\* a sync that failed following one that succeeded, and after cleanup and
\* a new initialize.
C29_ToolCountIsCatalogSize ==
  adapter.mcp_status.tool_count = Cardinality(adapter.mcp_tools)

(* ------------------- the manager's claims, concluded ------------------ *)
\* _load_mcp_server ran for the descriptor named n in the step: in a
\* reload_mcp_server(n) of a bound server, or in an initialize() whose
\* allow-list has the descriptor's server_type
load_ran_for(n) ==
  \/ mcall'.op = "reload_mcp_server" /\ mcall'.server = n /\ mcall'.result = "True"
  \/ /\ mcall'.op = "initialize"
     /\ servers_db'[n].status # "absent"
     /\ \E i \in DOMAIN mcall'.server : mcall'.server[i] = servers_db'[n].server_type

\* C30: once _load_mcp_server has returned, the manager's map and the
\* persisted descriptor agree: the server is bound in mcp_servers if and
\* only if the status the load persisted for its descriptor is active; a
\* load that ends in the error branch leaves the server unbound.
C30_BoundIffPersistedActive ==
  [][\A n \in ServerNames :
       load_ran_for(n) =>
         (manager'.mcp_servers[n] # NotLoaded <=> servers_db'[n].status = "active")]_vars

\* the name and the config of every descriptor of db are those of before
same_descriptors(db, before) ==
  \A n \in ServerNames :
    /\ db[n].status = "absent" <=> before[n].status = "absent"
    /\ db[n].server_type = before[n].server_type
    /\ db[n].communication_method = before[n].communication_method

C24_StatusQueryNeverRaises ==
  [][lcall'.op = "get_plugin_status" => lcall'.exc = NoExc]_vars

\* the classes of a module that derive from BasePlugin and leave no abstract
\* method without a body
concrete_plugin_classes(module) ==
  {c \in ModuleClasses[module] : "BasePlugin" \in Classes[c].bases /\ ~Classes[c].abstract}

\* C25: discovery returns every *_plugin source of the plugins directory
\* except the base-class definition, and load_plugin(name) instantiates the
\* concrete plugin class of the module: when the module defines a concrete
\* subclass of BasePlugin, that class is instantiated (never BasePlugin, never
\* an abstract base the module imports); when it holds none, loading fails
\* with an error and returns None.
C25_ConcreteClassInstantiated ==
  [][/\ dcall'.op = "discover_plugins" =>
          dcall'.value = {stem(f) : f \in {g \in plugins_directory :
                                             /\ glob_plugin(g)
                                             /\ g # <<"base", "_plugin", ".py">>}}
     /\ dcall'.op = "load_plugin" =>
          IF concrete_plugin_classes(dcall'.name) # {}
          THEN dcall'.instance \in concrete_plugin_classes(dcall'.name)
          ELSE dcall'.instance = "None" /\ dcall'.error # NULL]_vars

(* ----------------------- calls at the same time ----------------------- *)
\* task t is between the write of its request line and its read of a line
in_exchange(t) == tasks[t].pc \in {"readline", "waiting"}

\* C21: within one stdio adapter the exchanges are serialized, for any
\* number of calling tasks: between a call's write of its request line and
\* its read of one response line no other call on the adapter writes or
\* reads, and every call (tools/call or tools/list) parses the response
\* line produced for its own request.
C21_StdioExchangesSerialized ==
  [][\A t \in Tasks :
       /\ in_exchange(t) => \A u \in Tasks \ {t} : tasks'[u] = tasks[u]
       /\ (in_exchange(t) /\ tasks'[t].outcome = "parsed") =>
            tasks'[t].parsed = tasks[t].request]_vars

\* the call of task t ends in this step without an answer from outside
ends_unanswered(t) ==
  /\ tasks[t].pc = "awaiting"
  /\ tasks'[t].pc # "awaiting"
  /\ tasks'[t].outcome # "answered"

C27_ReplacedInstanceCleanedUp ==
  [][\A n \in PluginNames :
       (/\ loader.loaded_plugins[n] # NotLoaded
        /\ loader'.loaded_plugins[n] # loader.loaded_plugins[n]
        /\ heap[loader.loaded_plugins[n]].a.is_initialized) =>
         \E i \in DOMAIN lcall'.calls : lcall'.calls[i] = "cleanup"]_vars

\* C28: get_plugin_loader() is a singleton whose bulk load is a side effect
\* of the first access only: over any interleaving of callers,
\* load_all_plugins runs once, and every caller receives the loader only
\* after the bulk load has completed.
C28_LoaderReturnedAfterBulkLoad ==
  /\ Cardinality({t \in Tasks : tasks[t].ran}) <= 1
  /\ \A t \in Tasks : tasks[t].pc = "returned" =>
       /\ tasks[t].got = "PluginLoader"
       /\ tasks[t].complete

\* a reload of the server is between its del and its load in some task
reload_in_flight(server) ==
  \E u \in Tasks :
    /\ tasks[u].op = "reload_mcp_server"
    /\ tasks[u].pc = "loading"
    /\ tasks[u].server = server

\* C22: nothing keeps a reload_mcp_server(name) and an execute_mcp_tool(name)
\* apart: an execute that is issued while the reload of a configured, bound
\* server is under way is run, finds the name missing from mcp_servers, and
\* returns "MCP server not found" without calling the plugin.
C22_ExecuteDuringReloadNotFound ==
  [][(mcall'.op = "execute_mcp_tool" /\ reload_in_flight(mcall'.server)) =>
       /\ servers_db[mcall'.server].status # "absent"
       /\ mcall'.value.success = FALSE
       /\ mcall'.value.keys = {"success", "error", "available_servers"}
       /\ mcall'.server \notin mcall'.value.available_servers
       /\ mcall'.calls = <<>>
       /\ heap' = heap]_vars

\* the reload of firebase_mcp, which was bound, is still awaiting its load,
\* and the tool call of the other task on firebase_mcp got "MCP server not
\* found"
C22_Witness ==
  \E t, u \in Tasks :
    /\ tasks[u].op = "reload_mcp_server" /\ tasks[u].pc = "loading"
    /\ tasks[u].server = "firebase_mcp"
    /\ servers_db["firebase_mcp"].status # "absent"
    /\ tasks[t].op = "execute_mcp_tool" /\ tasks[t].server = "firebase_mcp"
    /\ tasks[t].value.keys = {"success", "error", "available_servers"}
    /\ mcall.op = "execute_mcp_tool" /\ mcall.server = "firebase_mcp"
====
